---- MODULE Spec2Model ----
(***************************************************************************)
(* Model of backon's retry engine: the asynchronous retry driver           *)
(* (backon/src/retry.rs, Retry::poll) running over an exponential backoff  *)
(* sequence (backon/src/backoff/exponential.rs, ExponentialBackoff::next). *)
(*                                                                         *)
(* Durations are natural numbers of ticks in 0..DurationMax, usize values  *)
(* are naturals in 0..UsizeMax, f32 values are naturals rounded to         *)
(* MantBits significant bits.  Errors and Ok values are small integers.    *)
(***************************************************************************)
EXTENDS Integers, Sequences, FiniteSets, TLC

VARIABLES
    state,         \* Retry.state: "Idle", "Polling" or "Sleeping"
    fut,           \* payload of State::Polling: number of the attempt in flight, 0 if none
    sl,            \* payload of State::Sleeping: duration being slept, None if none
    backoff,       \* Retry.backoff: the ExponentialBackoff record
    retryable_fn,  \* Retry.retryable_fn: the set of errors the predicate accepts
    ret,           \* what the latest call of poll returned (NotPolled before the first)
    steps,         \* the first and the last match arm the latest call of poll went through
    trace,         \* every event of the run so far, in order (history)
    notify_fn,     \* Retry.notify_fn: "default" (the empty closure of Retry::new) or "hook"
    sleep_fn,      \* Retry.sleep_fn: "sleeper" (one that sleeps) or "unit" (no sleeper configured)
    builder,       \* the policy value (the builder) the sequence was built from
    other,         \* the sequences built from builder besides backoff, each with its history
    ctx,           \* the context of .context(value): what driver, attempt and caller hold of it
    debug_assertions  \* cfg!(debug_assertions): whether debug_assert! is compiled in

vars == <<state, fut, sl, backoff, retryable_fn, ret, steps, trace,
          notify_fn, sleep_fn, builder, other, ctx, debug_assertions>>

----------------------------------------------------------------------------
(* Bounds *)

\* Duration::MAX, scaled down: the largest representable duration.
DurationMax == 7
\* usize::MAX, scaled down: the largest representable attempt counter.
UsizeMax == 3
\* Significant bits of an f32, scaled down.
MantBits == 2
\* Largest max_times a policy is configured with.
MaxTimes == 3
\* ExponentialBuilder::new: the default growth factor, 2.0.
DefaultFactor == 2
\* Denominator of the jitter draws: rng.f32() is drawn as k / RngDen.
RngDen == 4

\* Option::None, for the Option<Duration> and Option<usize> fields.
None == -1

\* The errors and the Ok values an attempt can produce.
Errors == {1, 2}
Values == {1, 2}
Durations == 0..DurationMax

----------------------------------------------------------------------------
(* Arithmetic of core::time::Duration and f32, scaled down *)

Min(a, b) == IF a < b THEN a ELSE b

RECURSIVE Pow2(_)
Pow2(n) == IF n = 0 THEN 1 ELSE 2 * Pow2(n - 1)

RECURSIVE BitLen(_)
\* number of binary digits of x (0 for x = 0)
BitLen(x) == IF x = 0 THEN 0 ELSE 1 + BitLen(x \div 2)

\* Rounding of a non-negative real number that happens to be the integer x
\* to the nearest float with MantBits significant bits, ties to even.
RoundToMant(x) ==
    IF BitLen(x) <= MantBits THEN x
    ELSE LET ulp == Pow2(BitLen(x) - MantBits)
             q   == x \div ulp
             r   == x % ulp
         IN  IF 2 * r < ulp THEN q * ulp
             ELSE IF 2 * r > ulp THEN (q + 1) * ulp
             ELSE IF q % 2 = 0 THEN q * ulp ELSE (q + 1) * ulp

\* The roundings of the numbers a duration times the default factor can
\* be, computed once.
F32Table == [x \in 0..(DefaultFactor * DurationMax) |-> RoundToMant(x)]

\* The f32 nearest to x.
F32Round(x) == IF x \in DOMAIN F32Table THEN F32Table[x] ELSE RoundToMant(x)

\* Duration::saturating_add
SaturatingAdd(a, b) == Min(a + b, DurationMax)

\* exponential.rs saturating_mul: the product is computed in f32 and
\* converted back; a negative or too large product gives Duration::MAX.
saturating_mul(d, rhs) ==
    LET p == F32Round(rhs * F32Round(d))
    IN  IF rhs * F32Round(d) < 0 \/ p > DurationMax THEN DurationMax ELSE p

\* n / den rounded to the nearest integer, ties to even: the conversion of
\* a float number of ticks to a Duration (Duration::from_secs_f32).
RoundTiesEven(n, den) ==
    LET q == n \div den
        r == n % den
    IN  IF 2 * r < den THEN q
        ELSE IF 2 * r > den THEN q + 1
        ELSE IF q % 2 = 0 THEN q ELSE q + 1

\* The values rng.f32() is drawn from, as numerators over RngDen: the
\* smallest and the largest value of [0, 1).
RngDraws == {0, RngDen - 1}

\* Duration::mul_f32(d, k / RngDen): the duration as an f32, times the
\* draw, converted back to a Duration.
mul_f32(d, k) == RoundTiesEven(F32Round(d) * k, RngDen)

\* The extra delays tmp_cur.mul_f32(self.rng.f32()) can be.
JitterOf(tmp_cur) == {mul_f32(tmp_cur, k) : k \in RngDraws}

----------------------------------------------------------------------------
(* ExponentialBuilder / ExponentialBackoff *)

\* The policies a driver is started with: ExponentialBuilder::new() followed
\* by any of with_jitter, with_min_delay, with_max_delay / without_max_delay,
\* with_max_times / without_max_times and with_total_delay.
Builders ==
    [jitter      : BOOLEAN,
     factor      : {DefaultFactor},
     min_delay   : {1, 2},
     max_delay   : {None, 2},
     max_times   : {None} \cup 0..MaxTimes,
     total_delay : {None, 3, DurationMax}]

\* ExponentialBuilder::build
Build(p) ==
    [jitter |-> p.jitter, factor |-> p.factor, min_delay |-> p.min_delay,
     max_delay |-> p.max_delay, max_times |-> p.max_times,
     total_delay |-> p.total_delay,
     current_delay |-> None, attempts |-> 0, cumulative_delay |-> 0]

\* Mutant of NextDelay: the factor is applied to min_delay every time, not
\* to the current delay.
NextDelay_FromMin(b) ==
    IF b.current_delay = None THEN b.min_delay
    ELSE IF b.max_delay # None
         THEN LET c1 == IF b.current_delay < b.max_delay
                        THEN saturating_mul(b.min_delay, b.factor)
                        ELSE b.current_delay
              IN  IF c1 > b.max_delay THEN b.max_delay ELSE c1
         ELSE saturating_mul(b.min_delay, b.factor)

\* Mutant of NextDelay: max_delay is ignored.
NextDelay_Uncapped(b) ==
    IF b.current_delay = None THEN b.min_delay
    ELSE saturating_mul(b.current_delay, b.factor)

\* The un-jittered delay of this advance (tmp_cur before jitter).
NextDelay(b) ==
    IF b.current_delay = None THEN b.min_delay
    ELSE IF b.max_delay # None
         THEN LET c1 == IF b.current_delay < b.max_delay
                        THEN saturating_mul(b.current_delay, b.factor)
                        ELSE b.current_delay
              IN  IF c1 > b.max_delay THEN b.max_delay ELSE c1
         ELSE saturating_mul(b.current_delay, b.factor)

\* Mutant of TotalDelayCheck: the delay alone is held against the budget.
TotalDelayCheck_IgnoresSpent(b, tmp_cur) ==
    IF b.total_delay = None THEN "Ok"
    ELSE IF tmp_cur <= b.total_delay THEN "Ok"
    ELSE "Over"

\* The check against the total delay budget: "Ok" when the delay fits,
\* "Over" when it does not, "Panic" when cumulative_delay + tmp_cur
\* overflows Duration (the + operator of Duration panics on overflow).
TotalDelayCheck(b, tmp_cur) ==
    IF b.total_delay = None THEN "Ok"
    ELSE IF b.cumulative_delay + tmp_cur > DurationMax THEN "Panic"
    ELSE IF b.cumulative_delay + tmp_cur <= b.total_delay THEN "Ok"
    ELSE "Over"

\* Mutant of ExponentialNext: the jittered delay is recorded as the
\* current delay.
ExponentialNext_Compounds(b) ==
    IF b.attempts >= (IF b.max_times = None THEN UsizeMax ELSE b.max_times)
    THEN {[b |-> b, out |-> "None", dur |-> None]}
    ELSE LET b1 == [b EXCEPT !.attempts = @ + 1]
             cur == NextDelay(b)
             tmps == IF b.jitter
                     THEN {SaturatingAdd(cur, j) : j \in JitterOf(cur)}
                     ELSE {cur}
         IN  { CASE TotalDelayCheck(b1, t) = "Panic" ->
                        [b |-> b1, out |-> "Panic", dur |-> None]
                 [] TotalDelayCheck(b1, t) = "Over" ->
                        [b |-> b1, out |-> "None", dur |-> None]
                 [] OTHER ->
                        [b |-> [b1 EXCEPT
                                  !.cumulative_delay =
                                      IF b.total_delay # None
                                      THEN SaturatingAdd(@, t) ELSE @,
                                  !.current_delay = t],
                         out |-> "Some", dur |-> t]
               : t \in tmps }

\* ExponentialBackoff::next: the set of possible outcomes [b, out, dur],
\* out = "Some" (dur yielded), "None" (exhausted) or "Panic".
ExponentialNext(b) ==
    IF b.attempts >= (IF b.max_times = None THEN UsizeMax ELSE b.max_times)
    THEN {[b |-> b, out |-> "None", dur |-> None]}
    ELSE LET b1 == [b EXCEPT !.attempts = @ + 1]
             cur == NextDelay(b)
             tmps == IF b.jitter
                     THEN {SaturatingAdd(cur, j) : j \in JitterOf(cur)}
                     ELSE {cur}
         IN  { CASE TotalDelayCheck(b1, t) = "Panic" ->
                        [b |-> b1, out |-> "Panic", dur |-> None]
                 [] TotalDelayCheck(b1, t) = "Over" ->
                        [b |-> b1, out |-> "None", dur |-> None]
                 [] OTHER ->
                        [b |-> [b1 EXCEPT
                                  !.cumulative_delay =
                                      IF b.total_delay # None
                                      THEN SaturatingAdd(@, t) ELSE @,
                                  !.current_delay = cur],
                         out |-> "Some", dur |-> t]
               : t \in tmps }

----------------------------------------------------------------------------
(* FibonacciBuilder / FibonacciBackoff, ConstantBuilder / ConstantBackoff *)

\* What a Duration sum that overflowed stands for: the + and += of Duration
\* panic ("overflow when adding durations").
Overflowed == None - 1

\* The + and += of Duration: the sum, or Overflowed.
CheckedAdd(a, b) == IF a + b > DurationMax THEN Overflowed ELSE a + b

\* The outcome of an advance that computed the delay t (or panicked doing
\* so) and leaves the sequence as b.
Yield(b, t) ==
    IF t = Overflowed THEN [b |-> b, out |-> "Panic", dur |-> None]
    ELSE [b |-> b, out |-> "Some", dur |-> t]

\* FibonacciBuilder::build
FibonacciBuild(p) ==
    [jitter |-> p.jitter, min_delay |-> p.min_delay,
     max_delay |-> p.max_delay, max_times |-> p.max_times,
     previous_delay |-> None, current_delay |-> None, attempts |-> 0]

\* Mutant of FibonacciNext: after the first advance the jitter is drawn
\* from the delay being yielded, not from min_delay.
FibonacciNext_JitterOfCurrent(b) ==
    IF b.attempts >= (IF b.max_times = None THEN UsizeMax ELSE b.max_times)
    THEN {[b |-> b, out |-> "None", dur |-> None]}
    ELSE LET b1 == [b EXCEPT !.attempts = @ + 1]
         IN  IF b.current_delay = None
             THEN LET next == b.min_delay
                      b2   == [b1 EXCEPT !.current_delay = next]
                  IN  IF b.jitter
                      THEN {Yield(b2, CheckedAdd(next, j)) : j \in JitterOf(next)}
                      ELSE {Yield(b2, next)}
             ELSE LET cur  == b.current_delay
                      grow == cur < (IF b.max_delay = None THEN DurationMax
                                     ELSE b.max_delay)
                      next == IF grow /\ b.previous_delay # None
                              THEN SaturatingAdd(cur, b.previous_delay)
                              ELSE cur
                      b2   == IF grow
                              THEN [b1 EXCEPT !.current_delay = next,
                                              !.previous_delay = cur]
                              ELSE b1
                  IN  IF b.jitter
                      THEN {Yield(b2, CheckedAdd(next, j)) : j \in JitterOf(next)}
                      ELSE {Yield(b2, next)}

\* Mutant of FibonacciNext: the new delay, not the one it replaces, is
\* remembered as the previous delay.
FibonacciNext_ForgetsPrevious(b) ==
    IF b.attempts >= (IF b.max_times = None THEN UsizeMax ELSE b.max_times)
    THEN {[b |-> b, out |-> "None", dur |-> None]}
    ELSE LET b1 == [b EXCEPT !.attempts = @ + 1]
         IN  IF b.current_delay = None
             THEN LET next == b.min_delay
                      b2   == [b1 EXCEPT !.current_delay = next]
                  IN  IF b.jitter
                      THEN {Yield(b2, CheckedAdd(next, j)) : j \in JitterOf(next)}
                      ELSE {Yield(b2, next)}
             ELSE LET cur  == b.current_delay
                      grow == cur < (IF b.max_delay = None THEN DurationMax
                                     ELSE b.max_delay)
                      next == IF grow /\ b.previous_delay # None
                              THEN SaturatingAdd(cur, b.previous_delay)
                              ELSE cur
                      b2   == IF grow
                              THEN [b1 EXCEPT !.current_delay = next,
                                              !.previous_delay = next]
                              ELSE b1
                  IN  IF b.jitter
                      THEN {Yield(b2, CheckedAdd(next, j)) : j \in JitterOf(b.min_delay)}
                      ELSE {Yield(b2, next)}

\* Mutant of FibonacciNext: a delay equal to max_delay grows once more.
FibonacciNext_GrowsAtCap(b) ==
    IF b.attempts >= (IF b.max_times = None THEN UsizeMax ELSE b.max_times)
    THEN {[b |-> b, out |-> "None", dur |-> None]}
    ELSE LET b1 == [b EXCEPT !.attempts = @ + 1]
         IN  IF b.current_delay = None
             THEN LET next == b.min_delay
                      b2   == [b1 EXCEPT !.current_delay = next]
                  IN  IF b.jitter
                      THEN {Yield(b2, CheckedAdd(next, j)) : j \in JitterOf(next)}
                      ELSE {Yield(b2, next)}
             ELSE LET cur  == b.current_delay
                      grow == cur <= (IF b.max_delay = None THEN DurationMax
                                      ELSE b.max_delay)
                      next == IF grow /\ b.previous_delay # None
                              THEN SaturatingAdd(cur, b.previous_delay)
                              ELSE cur
                      b2   == IF grow
                              THEN [b1 EXCEPT !.current_delay = next,
                                              !.previous_delay = cur]
                              ELSE b1
                  IN  IF b.jitter
                      THEN {Yield(b2, CheckedAdd(next, j)) : j \in JitterOf(b.min_delay)}
                      ELSE {Yield(b2, next)}

\* FibonacciBackoff::next: the set of possible outcomes [b, out, dur].
FibonacciNext(b) ==
    IF b.attempts >= (IF b.max_times = None THEN UsizeMax ELSE b.max_times)
    THEN {[b |-> b, out |-> "None", dur |-> None]}
    ELSE LET b1 == [b EXCEPT !.attempts = @ + 1]
         IN  IF b.current_delay = None
             THEN LET next == b.min_delay
                      b2   == [b1 EXCEPT !.current_delay = next]
                  IN  IF b.jitter
                      THEN {Yield(b2, CheckedAdd(next, j)) : j \in JitterOf(next)}
                      ELSE {Yield(b2, next)}
             ELSE LET cur  == b.current_delay
                      grow == cur < (IF b.max_delay = None THEN DurationMax
                                     ELSE b.max_delay)
                      next == IF grow /\ b.previous_delay # None
                              THEN SaturatingAdd(cur, b.previous_delay)
                              ELSE cur
                      b2   == IF grow
                              THEN [b1 EXCEPT !.current_delay = next,
                                              !.previous_delay = cur]
                              ELSE b1
                  IN  IF b.jitter
                      THEN {Yield(b2, CheckedAdd(next, j)) : j \in JitterOf(b.min_delay)}
                      ELSE {Yield(b2, next)}

\* ConstantBuilder::build
ConstantBuild(p) ==
    [delay |-> p.delay, max_times |-> p.max_times, attempts |-> 0,
     jitter |-> p.jitter]

\* Mutant of ConstantDelay: the jitter is added whether enabled or not.
ConstantDelay_AlwaysJitters(b) ==
    {CheckedAdd(b.delay, j) : j \in JitterOf(b.delay)}

\* The closure delay() of ConstantBackoff::next: the delays it can return,
\* Overflowed among them when delay + jitter overflows.
ConstantDelay(b) ==
    IF b.jitter THEN {CheckedAdd(b.delay, j) : j \in JitterOf(b.delay)}
    ELSE {b.delay}

\* Mutant of ConstantNext: one delay more than max_times is yielded.
ConstantNext_OneMore(b) ==
    IF b.max_times = None
    THEN {Yield(b, t) : t \in ConstantDelay(b)}
    ELSE IF b.attempts > b.max_times
         THEN {[b |-> b, out |-> "None", dur |-> None]}
         ELSE {Yield([b EXCEPT !.attempts = @ + 1], t) : t \in ConstantDelay(b)}

\* ConstantBackoff::next: the set of possible outcomes [b, out, dur].
ConstantNext(b) ==
    IF b.max_times = None
    THEN {Yield(b, t) : t \in ConstantDelay(b)}
    ELSE IF b.attempts >= b.max_times
         THEN {[b |-> b, out |-> "None", dur |-> None]}
         ELSE {Yield([b EXCEPT !.attempts = @ + 1], t) : t \in ConstantDelay(b)}

----------------------------------------------------------------------------
(* Backoff and BackoffBuilder: any iterator of durations is a backoff, and *)
(* a backoff is its own builder.                                           *)

\* Which kind of sequence b is, by the fields it has.
IsExponential(b) == "factor" \in DOMAIN b
IsFibonacci(b) == "previous_delay" \in DOMAIN b
IsConstant(b) == "delay" \in DOMAIN b
IsIterator(b) == "items" \in DOMAIN b

\* An iterator of durations: the items it goes through and the position of
\* the item it yields next.
Iterator(items, pos) == [items |-> items, pos |-> pos]

\* Mutant of IteratorNext: every other item is skipped.
IteratorNext_SkipsOne(b) ==
    IF b.pos > Len(b.items)
    THEN {[b |-> b, out |-> "None", dur |-> None]}
    ELSE {[b |-> [b EXCEPT !.pos = @ + 2], out |-> "Some",
           dur |-> b.items[b.pos]]}

\* Iterator::next of an iterator over items such as vec::IntoIter.
IteratorNext(b) ==
    IF b.pos > Len(b.items)
    THEN {[b |-> b, out |-> "None", dur |-> None]}
    ELSE {[b |-> [b EXCEPT !.pos = @ + 1], out |-> "Some",
           dur |-> b.items[b.pos]]}

\* BackoffBuilder::build of the policy p, whichever its kind; an iterator
\* is returned as it is.
BuildOf(p) ==
    IF IsIterator(p) THEN p
    ELSE IF "factor" \in DOMAIN p THEN Build(p)
    ELSE IF "delay" \in DOMAIN p THEN ConstantBuild(p)
    ELSE FibonacciBuild(p)

\* Mutant of NextOf: the jitter is added whether enabled or not.
NextOf_Jitters(b) ==
    LET j == [b EXCEPT !.jitter = TRUE]
        os == IF IsExponential(b) THEN ExponentialNext(j)
              ELSE IF IsFibonacci(b) THEN FibonacciNext(j)
              ELSE ConstantNext(j)
    IN  {[o EXCEPT !.b.jitter = b.jitter] : o \in os}

\* Iterator::next on the sequence b, whichever its kind.
NextOf(b) ==
    IF IsExponential(b) THEN ExponentialNext(b)
    ELSE IF IsFibonacci(b) THEN FibonacciNext(b)
    ELSE IF IsConstant(b) THEN ConstantNext(b)
    ELSE IteratorNext(b)

----------------------------------------------------------------------------
(* Results and events *)

Ok(v)  == [tag |-> "Ok", val |-> v]
Err(e) == [tag |-> "Err", val |-> e]
Results == {Ok(v) : v \in Values} \cup {Err(e) : e \in Errors}

NotPolled == [tag |-> "NotPolled", val |-> 0]   \* poll was never called
Pending   == [tag |-> "Pending", val |-> 0]     \* Poll::Pending
Panicked  == [tag |-> "Panic", val |-> 0]       \* poll unwound with a panic
\* Poll::Ready(r) is written r.

\* An event of the run: ev is its kind, att the number of the attempt it
\* belongs to, val the Ok value or the error, dur a duration, acc the
\* predicate's answer.
Event(ev, att, val, dur, acc) ==
    [ev |-> ev, att |-> att, val |-> val, dur |-> dur, acc |-> acc]

EvCall(n)          == Event("call", n, 0, None, FALSE)    \* (this.future_fn)()
EvOk(n, v)         == Event("ok", n, v, None, FALSE)      \* attempt resolved Ok(v)
EvErr(n, e)        == Event("err", n, e, None, FALSE)     \* attempt resolved Err(e)
EvWhen(n, e, a)    == Event("when", n, e, None, a)        \* (this.retryable_fn)(&err) = a
\* this.backoff.next(): out is "nextSome", "nextNone" or "nextPanic"
EvNext(n, out, d)  == Event(out, n, 0, d, FALSE)
EvNotify(n, e, d)  == Event("notify", n, e, d, FALSE)     \* (this.notify_fn)(&err, dur)
EvSleep(n, d)      == Event("sleep", n, 0, d, FALSE)      \* this.sleep_fn.sleep(dur)
EvWake(n, d)       == Event("wake", n, 0, d, FALSE)       \* the sleep future resolved
EvSleepPanic(n, d) == Event("sleepPanic", n, 0, d, FALSE) \* ().sleep(dur) panicked

\* number of events of kind ev in the trace tr
CountEv(tr, ev) == Cardinality({i \in 1..Len(tr) : tr[i].ev = ev})

----------------------------------------------------------------------------
(* Retry::poll *)

\* The driver as one record, the argument of the loop of poll.
Driver ==
    [state |-> state, fut |-> fut, sl |-> sl, backoff |-> backoff,
     retryable_fn |-> retryable_fn, ret |-> ret, steps |-> steps,
     trace |-> trace, notify_fn |-> notify_fn, sleep_fn |-> sleep_fn]

\* No arm yet: poll has just been entered.
NoSteps == [first |-> "-", last |-> "-"]

\* The steps after going through match arm a.
Arm(st, a) == [first |-> IF st.first = "-" THEN a ELSE st.first, last |-> a]

\* State::Idle arm: call future_fn and keep the future in State::Polling.
StartAttempt(d) ==
    LET n == CountEv(d.trace, "call") + 1
    IN  [d EXCEPT !.state = "Polling", !.fut = n,
                  !.steps = Arm(@, "Idle"),
                  !.trace = Append(@, EvCall(n))]

\* Mutant of AttemptPending: the pending attempt is dropped and the driver
\* starts from scratch at the next poll.
AttemptPending_Restarts(d) ==
    [d EXCEPT !.ret = Pending, !.state = "Idle", !.fut = 0,
              !.steps = Arm(@, "PollingPending")]

\* ready!(fut.poll(cx)) found the attempt pending: return Poll::Pending.
AttemptPending(d) ==
    [d EXCEPT !.ret = Pending, !.steps = Arm(@, "PollingPending")]

\* Mutant of AttemptOk: the sequence is advanced on success too.
AttemptOk_Advances(d, v) ==
    [d EXCEPT !.ret = Ok(v), !.steps = Arm(@, "PollingOk"),
              !.backoff = [@ EXCEPT !.attempts = @ + 1],
              !.trace = Append(@, EvOk(d.fut, v))]

\* Ok(v) => return Poll::Ready(Ok(v))
AttemptOk(d, v) ==
    [d EXCEPT !.ret = Ok(v), !.steps = Arm(@, "PollingOk"),
              !.trace = Append(@, EvOk(d.fut, v))]

\* Mutant of IsRetryable: the predicate's answer is ignored.
IsRetryable_Always(d, e) == e \in Errors

\* Mutant of IsRetryable: error 1 is rejected whatever the predicate says.
IsRetryable_Picky(d, e) == e \in d.retryable_fn /\ e # 1

\* (this.retryable_fn)(&err)
IsRetryable(d, e) == e \in d.retryable_fn

\* Mutant of NotRetryable: the sequence is advanced before the predicate
\* is asked.
NotRetryable_Advances(d, e) ==
    [d EXCEPT !.ret = Err(e), !.steps = Arm(@, "PollingNotRetryable"),
              !.backoff = [@ EXCEPT !.attempts = @ + 1],
              !.trace = @ \o <<EvErr(d.fut, e), EvWhen(d.fut, e, FALSE)>>]

\* !(this.retryable_fn)(&err) => return Poll::Ready(Err(err))
NotRetryable(d, e) ==
    [d EXCEPT !.ret = Err(e), !.steps = Arm(@, "PollingNotRetryable"),
              !.trace = @ \o <<EvErr(d.fut, e), EvWhen(d.fut, e, IsRetryable(d, e))>>]

\* The error of the first failed attempt in trace tr, e if there is none.
FirstError(tr, e) ==
    IF \E i \in 1..Len(tr) : tr[i].ev = "err"
    THEN tr[CHOOSE i \in 1..Len(tr) :
                /\ tr[i].ev = "err"
                /\ \A j \in 1..(i - 1) : tr[j].ev # "err"].val
    ELSE e

\* Mutant of Exhausted: the first error of the run is returned.
Exhausted_FirstError(d, e, o) ==
    [d EXCEPT !.ret = Err(FirstError(d.trace, e)), !.backoff = o.b,
              !.steps = Arm(@, "PollingExhausted"),
              !.trace = @ \o <<EvErr(d.fut, e), EvWhen(d.fut, e, TRUE),
                               EvNext(d.fut, "nextNone", None)>>]

\* Mutant of Exhausted: an exhausted sequence is taken for a zero delay.
Exhausted_SleepsAnyway(d, e, o) ==
    [d EXCEPT !.state = "Sleeping", !.sl = 0, !.fut = 0,
              !.backoff = o.b,
              !.steps = Arm(@, "PollingRetry"),
              !.trace = @ \o <<EvErr(d.fut, e), EvWhen(d.fut, e, TRUE),
                               EvNext(d.fut, "nextNone", None),
                               EvNotify(d.fut, e, 0),
                               EvSleep(d.fut, 0)>>]

\* Mutant of Exhausted: an exhausted sequence suspends the caller.
Exhausted_Suspends(d, e, o) ==
    [d EXCEPT !.ret = Pending, !.backoff = o.b,
              !.steps = Arm(@, "PollingExhausted"),
              !.trace = @ \o <<EvErr(d.fut, e), EvWhen(d.fut, e, TRUE),
                               EvNext(d.fut, "nextNone", None)>>]

\* this.backoff.next() = None => return Poll::Ready(Err(err))
Exhausted(d, e, o) ==
    [d EXCEPT !.ret = Err(e), !.backoff = o.b,
              !.steps = Arm(@, "PollingExhausted"),
              !.trace = @ \o <<EvErr(d.fut, e), EvWhen(d.fut, e, IsRetryable(d, e)),
                               EvNext(d.fut, "nextNone", None)>>]

\* this.backoff.next() panicked: poll unwinds, the state stays as it was.
NextPanicked(d, e, o) ==
    [d EXCEPT !.ret = Panicked, !.backoff = o.b,
              !.steps = Arm(@, "PollingPanic"),
              !.trace = @ \o <<EvErr(d.fut, e), EvWhen(d.fut, e, IsRetryable(d, e)),
                               EvNext(d.fut, "nextPanic", None)>>]

\* Mutant of StartSleep: the notify hook is not called.
StartSleep_NoNotify(d, e, o) ==
    [d EXCEPT !.state = "Sleeping", !.sl = o.dur, !.fut = 0,
              !.backoff = o.b,
              !.steps = Arm(@, "PollingRetry"),
              !.trace = @ \o <<EvErr(d.fut, e), EvWhen(d.fut, e, TRUE),
                               EvNext(d.fut, "nextSome", o.dur),
                               EvSleep(d.fut, o.dur)>>]

\* Mutant of StartSleep: the sleep is for the recorded (un-jittered) delay.
StartSleep_Unjittered(d, e, o) ==
    [d EXCEPT !.state = "Sleeping", !.sl = o.b.current_delay, !.fut = 0,
              !.backoff = o.b,
              !.steps = Arm(@, "PollingRetry"),
              !.trace = @ \o <<EvErr(d.fut, e), EvWhen(d.fut, e, TRUE),
                               EvNext(d.fut, "nextSome", o.dur),
                               EvNotify(d.fut, e, o.dur),
                               EvSleep(d.fut, o.b.current_delay)>>]

\* Mutant of StartSleep: a driver with a hook sleeps zero after telling it.
StartSleep_HookShortens(d, e, o) ==
    [d EXCEPT !.state = "Sleeping",
              !.sl = IF d.notify_fn = "hook" THEN 0 ELSE o.dur,
              !.fut = 0,
              !.backoff = o.b,
              !.steps = Arm(@, "PollingRetry"),
              !.trace = @ \o <<EvErr(d.fut, e), EvWhen(d.fut, e, TRUE),
                               EvNext(d.fut, "nextSome", o.dur)>>
                          \o (IF d.notify_fn = "hook"
                              THEN <<EvNotify(d.fut, e, o.dur), EvSleep(d.fut, 0)>>
                              ELSE <<EvSleep(d.fut, o.dur)>>)]

\* (this.notify_fn)(&err, dur): what a configured hook gets to see; the
\* empty closure of Retry::new leaves no event.
Notification(d, e, dur) ==
    IF d.notify_fn = "hook" THEN <<EvNotify(d.fut, e, dur)>> ELSE <<>>

\* Some(dur) => notify, then keep the sleep future in State::Sleeping.
StartSleep(d, e, o) ==
    [d EXCEPT !.state = "Sleeping", !.sl = o.dur, !.fut = 0,
              !.backoff = o.b,
              !.steps = Arm(@, "PollingRetry"),
              !.trace = @ \o <<EvErr(d.fut, e), EvWhen(d.fut, e, IsRetryable(d, e)),
                               EvNext(d.fut, "nextSome", o.dur)>>
                          \o Notification(d, e, o.dur)
                          \o <<EvSleep(d.fut, o.dur)>>]

\* Mutant of SleepPanicked: without a sleeper the error is returned.
SleepPanicked_ReturnsErr(d, e, o) ==
    [d EXCEPT !.ret = Err(e), !.backoff = o.b,
              !.steps = Arm(@, "PollingSleepPanic"),
              !.trace = @ \o <<EvErr(d.fut, e), EvWhen(d.fut, e, TRUE),
                               EvNext(d.fut, "nextSome", o.dur)>>
                          \o Notification(d, e, o.dur)]

\* Some(dur) with the sleeper (): notify, then sleep(dur) panics before
\* this.state is assigned; poll unwinds.
SleepPanicked(d, e, o) ==
    [d EXCEPT !.ret = Panicked, !.backoff = o.b,
              !.steps = Arm(@, "PollingSleepPanic"),
              !.trace = @ \o <<EvErr(d.fut, e), EvWhen(d.fut, e, IsRetryable(d, e)),
                               EvNext(d.fut, "nextSome", o.dur)>>
                          \o Notification(d, e, o.dur)
                          \o <<EvSleepPanic(d.fut, o.dur)>>]

\* Mutant of SleepPending: a pending sleep is dropped, the driver goes on.
SleepPending_Skips(d) ==
    [d EXCEPT !.ret = Pending, !.state = "Idle", !.sl = None,
              !.steps = Arm(@, "SleepingPending")]

\* ready!(sl.poll(cx)) found the sleep pending: return Poll::Pending.
SleepPending(d) ==
    [d EXCEPT !.ret = Pending, !.steps = Arm(@, "SleepingPending")]

\* Mutant of SleepReady: the old attempt is polled again after the sleep.
SleepReady_ToPolling(d) ==
    [d EXCEPT !.state = "Polling", !.sl = None,
              !.fut = CountEv(d.trace, "call"),
              !.steps = Arm(@, "SleepingReady"),
              !.trace = Append(@, EvWake(CountEv(d.trace, "call"), d.sl))]

\* The sleep resolved: this.state = State::Idle.
SleepReady(d) ==
    [d EXCEPT !.state = "Idle", !.sl = None,
              !.steps = Arm(@, "SleepingReady"),
              !.trace = Append(@, EvWake(CountEv(d.trace, "call"), d.sl))]

RECURSIVE PollLoop(_)
\* The loop of Retry::poll from driver d: the set of drivers it can return
\* with, one for every way the polled futures, the predicate's argument and
\* the jitter can turn out.
\* (The driver is bound by a quantifier so that it is evaluated once, not
\* once for every use of the argument.)
PollLoop(d0) ==
    UNION {
      CASE d.state = "Idle" -> PollLoop(StartAttempt(d))
        [] d.state = "Polling" ->
              {AttemptPending(d)}
              \cup {AttemptOk(d, v) : v \in Values}
              \cup UNION { IF ~IsRetryable(d, e)
                           THEN {NotRetryable(d, e)}
                           ELSE UNION { CASE o.out = "None"  -> {Exhausted(d, e, o)}
                                          [] o.out = "Panic" -> {NextPanicked(d, e, o)}
                                          [] d.sleep_fn = "unit" -> {SleepPanicked(d, e, o)}
                                          [] OTHER -> PollLoop(StartSleep(d, e, o))
                                        : o \in NextOf(d.backoff) }
                           : e \in Errors }
        [] d.state = "Sleeping" ->
              {SleepPending(d)} \cup PollLoop(SleepReady(d))
      : d \in {d0} }

\* The run is over: poll returned Poll::Ready or unwound.
Finished(r) == r.tag \in {"Ok", "Err", "Panic"}

\* One call of Retry::poll.  A future is not polled again once it has
\* completed.
Poll ==
    /\ ~Finished(ret)
    /\ \E d \in PollLoop([Driver EXCEPT !.steps = NoSteps]) :
          /\ state' = d.state
          /\ fut' = d.fut
          /\ sl' = d.sl
          /\ backoff' = d.backoff
          /\ retryable_fn' = d.retryable_fn
          /\ ret' = d.ret
          /\ steps' = d.steps
          /\ trace' = d.trace
    /\ UNCHANGED <<notify_fn, sleep_fn, builder, other, ctx, debug_assertions>>

\* Retry::new followed by when(p), notify(hook) and sleep(sleeper): the
\* state of a configured driver.
\* A driver without .context(value) carries no context.
NoContext == [driver |-> None, attempt |-> None, caller |-> None]

Init ==
    /\ state = "Idle"
    /\ fut = 0
    /\ sl = None
    /\ builder \in Builders
    /\ backoff = Build(builder)
    /\ other = <<>>
    /\ notify_fn = "hook"
    /\ sleep_fn = "sleeper"
    /\ retryable_fn \in SUBSET Errors
    /\ ret = NotPolled
    /\ steps = NoSteps
    /\ trace = <<>>
    /\ ctx = NoContext
    /\ debug_assertions = TRUE

Next == Poll

Spec == Init /\ [][Next]_vars

----------------------------------------------------------------------------
(* Quantities read off the history *)

Idx == 1..Len(trace)
LastEv == trace[Len(trace)]

\* number of times the operation closure was invoked
Calls == CountEv(trace, "call")
\* number of delays the sequence yielded
Yielded == CountEv(trace, "nextSome")
\* number of times the sequence was advanced (backoff.next() called)
Advances ==
    CountEv(trace, "nextSome") + CountEv(trace, "nextNone") + CountEv(trace, "nextPanic")
Notified == CountEv(trace, "notify")
Slept == CountEv(trace, "sleep")

\* max_times.unwrap_or(usize::MAX)
MaxTimesOf(b) == IF b.max_times = None THEN UsizeMax ELSE b.max_times

----------------------------------------------------------------------------
(* C1 *)

\* C1: an attempt that fails with an error the retryable predicate rejects
\* ends the run at once with that same error: the rejected predicate call
\* is the last event, the operation is not invoked again, the sequence is
\* not advanced, nothing is notified and no suspension is started.  With a
\* predicate that rejects everything a failing run invokes the operation
\* exactly once.
C1_NonRetryableIsTerminal ==
    /\ \A i \in Idx :
          (trace[i].ev = "err" /\ trace[i].val \notin retryable_fn) =>
              /\ Len(trace) = i + 1
              /\ trace[i + 1] = EvWhen(trace[i].att, trace[i].val, FALSE)
              /\ ret = Err(trace[i].val)
              /\ trace[i].att = Calls
              /\ state = "Polling" /\ sl = None
              /\ backoff.attempts = Yielded
              /\ Advances = Yielded /\ Notified = Yielded /\ Slept = Yielded
    /\ (retryable_fn = {} /\ ret.tag = "Err") => Calls = 1

\* A run that ended on a rejected error after one retry.
C1_Witness ==
    /\ ret.tag = "Err"
    /\ Calls = 2
    /\ LastEv.ev = "when" /\ ~LastEv.acc

----------------------------------------------------------------------------
(* C2 *)

\* The run is over, every attempt failed, the predicate accepted every
\* error and the sequence ended by reporting exhaustion.
AlwaysFailingRun ==
    /\ Finished(ret)
    /\ CountEv(trace, "ok") = 0
    /\ \A i \in Idx : trace[i].ev = "when" => trace[i].acc
    /\ CountEv(trace, "nextPanic") = 0

\* C2: in a finished run in which every attempt failed, every error was
\* accepted and the sequence yielded exactly n delays before exhausting, the
\* operation was invoked n+1 times, the predicate evaluated n+1 times, the
\* notify hook called n times, n suspensions were started and the run ended
\* with an error; without a total-delay budget n is max_times.
C2_AlwaysFailingCounts ==
    AlwaysFailingRun =>
        /\ ret.tag = "Err"
        /\ Calls = Yielded + 1
        /\ CountEv(trace, "err") = Yielded + 1
        /\ CountEv(trace, "when") = Yielded + 1
        /\ Notified = Yielded
        /\ Slept = Yielded
        /\ CountEv(trace, "nextNone") = 1
        /\ backoff.total_delay = None => Yielded = MaxTimesOf(backoff)

\* Three delays: four invocations and three notifications.
C2_Witness ==
    /\ AlwaysFailingRun
    /\ Yielded = 3
    /\ Calls = 4
    /\ Notified = 3

----------------------------------------------------------------------------
(* C3 *)

\* C3: an attempt that succeeds ends the run with its value: the Ok event
\* is the last event and directly follows the call of its attempt, and no
\* predicate evaluation, advance, notification or suspension belongs to it.
\* When it is attempt k, the operation was invoked k times and the sequence
\* advanced k-1 times.
C3_SuccessIsTerminal ==
    \A i \in Idx :
        trace[i].ev = "ok" =>
            /\ i = Len(trace)
            /\ ret = Ok(trace[i].val)
            /\ trace[i].att = Calls
            /\ trace[i - 1] = EvCall(Calls)
            /\ state = "Polling" /\ sl = None
            /\ CountEv(trace, "when") = Calls - 1
            /\ Advances = Calls - 1
            /\ Yielded = Calls - 1
            /\ backoff.attempts = Calls - 1
            /\ Notified = Calls - 1
            /\ Slept = Calls - 1

\* The third attempt succeeded.
C3_Witness ==
    /\ ret.tag = "Ok"
    /\ Calls = 3
    /\ LastEv.ev = "ok"

----------------------------------------------------------------------------
(* C4 *)

\* The run ended because the sequence reported exhaustion before max_times
\* delays were yielded: the total-delay budget stopped it.
BudgetExhausted ==
    /\ ret.tag = "Err"
    /\ LastEv.ev = "nextNone"
    /\ Yielded < MaxTimesOf(backoff)

\* C4: when the run ends with an error, it is the error of the most recent
\* attempt (the one invoked last), whether the predicate rejected it, the
\* sequence was exhausted by max_times or by the total-delay budget.
C4_LastErrorReturned ==
    ret.tag = "Err" =>
        \E i \in Idx :
            /\ trace[i] = EvErr(Calls, ret.val)
            /\ \A j \in Idx : j > i => trace[j].ev \notin {"call", "ok", "err"}

\* A run stopped by the total-delay budget whose first attempt failed with
\* another error than its last.
C4_Witness ==
    /\ BudgetExhausted
    /\ Calls >= 2
    /\ \E i \in Idx : trace[i].ev = "err" /\ trace[i].att = 1 /\ trace[i].val # ret.val

\* The same for exhaustion by max_times and for a rejected error.
C4_WitnessMaxTimes ==
    /\ ret.tag = "Err" /\ LastEv.ev = "nextNone"
    /\ Yielded = MaxTimesOf(backoff) /\ Calls >= 2
    /\ \E i \in Idx : trace[i].ev = "err" /\ trace[i].att = 1 /\ trace[i].val # ret.val
C4_WitnessRejected ==
    /\ ret.tag = "Err" /\ LastEv.ev = "when" /\ Calls >= 2
    /\ \E i \in Idx : trace[i].ev = "err" /\ trace[i].att = 1 /\ trace[i].val # ret.val

----------------------------------------------------------------------------
(* C5 *)

\* C5: every delay d the sequence yields for a failure with error e is
\* followed at once by one notify(e, d) and then by sleep(d), d unchanged;
\* there are no other notifications or suspensions, and the suspension in
\* flight is the one for d.
C5_NotifyThenSleep ==
    /\ \A i \in Idx :
          trace[i].ev = "nextSome" =>
              /\ i >= 3 /\ Len(trace) >= i + 2
              /\ trace[i - 2] = EvErr(trace[i].att, trace[i - 2].val)
              /\ trace[i + 1] = EvNotify(trace[i].att, trace[i - 2].val, trace[i].dur)
              /\ trace[i + 2] = EvSleep(trace[i].att, trace[i].dur)
    /\ Notified = Yielded
    /\ Slept = Yielded
    /\ state = "Sleeping" => LastEv = EvSleep(Calls, sl)

\* A second suspension is in flight, for a delay that jitter made larger
\* than the recorded current delay.
C5_Witness ==
    /\ state = "Sleeping"
    /\ Notified = 2
    /\ sl > backoff.current_delay

----------------------------------------------------------------------------
(* C6 *)

\* number of attempts that have resolved
Resolved == CountEv(trace, "ok") + CountEv(trace, "err")

\* C6: attempts are strictly sequential.  The calls of the operation are
\* numbered 1, 2, ... in order; at most one attempt is unresolved, and it is
\* the one held in State::Polling; no attempt is in flight while a
\* suspension is; and every call but the first directly follows the end of
\* the suspension started for the accepted failure of the attempt before.
C6_StrictlySequential ==
    /\ \A i \in Idx :
          trace[i].ev = "call" =>
              /\ trace[i].att = Cardinality({j \in 1..i : trace[j].ev = "call"})
              /\ \/ i = 1
                 \/ /\ i >= 8
                    /\ trace[i - 1].ev = "wake"
                    /\ trace[i - 1].att = trace[i].att - 1
                    /\ trace[i - 2] = EvSleep(trace[i].att - 1, trace[i - 1].dur)
                    /\ trace[i - 5] = EvWhen(trace[i].att - 1, trace[i - 6].val, TRUE)
                    /\ trace[i - 6].ev = "err"
                    /\ trace[i - 6].att = trace[i].att - 1
                    /\ trace[i - 7] = EvCall(trace[i].att - 1)
    /\ Calls - Resolved \in {0, 1}
    /\ Calls - Resolved = 1 => (state = "Polling" /\ fut = Calls)
    /\ state = "Sleeping" => (fut = 0 /\ Calls = Resolved /\ LastEv.ev = "sleep")
    /\ state = "Polling" => sl = None

\* The third attempt is in flight.
C6_Witness ==
    /\ state = "Polling"
    /\ ret = Pending
    /\ fut = 3
    /\ Calls - Resolved = 1

----------------------------------------------------------------------------
(* C7 *)

NextKinds == {"nextSome", "nextNone", "nextPanic"}

\* number of attempts that failed with an error the predicate accepts
RetryableFailures ==
    Cardinality({i \in Idx : trace[i].ev = "err" /\ trace[i].val \in retryable_fn})

\* C7: the sequence has been advanced as many times as attempts have failed
\* with an accepted error: every accepted failure is followed by exactly one
\* advance, every advance follows an accepted failure, and the attempt
\* counter of the sequence never exceeds the number of advances.
C7_AdvancedOncePerRetryableFailure ==
    /\ Advances = RetryableFailures
    /\ \A i \in Idx :
          (trace[i].ev = "when" /\ trace[i].acc) =>
              /\ i < Len(trace)
              /\ trace[i + 1].ev \in NextKinds
              /\ i + 2 <= Len(trace) => trace[i + 2].ev \notin NextKinds
    /\ \A i \in Idx :
          trace[i].ev \in NextKinds =>
              /\ i >= 3
              /\ trace[i - 1].ev = "when" /\ trace[i - 1].acc
              /\ trace[i - 2].ev = "err" /\ trace[i - 2].val \in retryable_fn
    /\ backoff.attempts <= Advances
    /\ backoff.attempts >= Yielded + CountEv(trace, "nextPanic")

\* Three attempts failed, two of them with an accepted error.
C7_Witness ==
    /\ CountEv(trace, "err") = 3
    /\ RetryableFailures = 2
    /\ Advances = 2
    /\ ret.tag = "Err"

----------------------------------------------------------------------------
(* C8 *)

\* The events that change the phase: call (Idle -> Attempting), sleep
\* (Attempting -> Suspended) and wake (Suspended -> Idle).
IsPhaseEvent(e) == e.ev \in {"call", "sleep", "wake"}
PhaseEvents == SelectSeq(trace, IsPhaseEvent)

\* the phase the k-th phase change leads to when the changes go round
\* Idle -> Attempting -> Suspended -> Idle
PhaseChange(k) ==
    CASE k % 3 = 1 -> [ev |-> "call", to |-> "Polling"]
      [] k % 3 = 2 -> [ev |-> "sleep", to |-> "Sleeping"]
      [] OTHER     -> [ev |-> "wake", to |-> "Idle"]

\* C8: the driver is in exactly one of the phases Idle, Attempting
\* (Polling) and Suspended (Sleeping), and holds an attempt exactly in
\* Attempting and a suspension exactly in Suspended.  It starts in Idle, its
\* phase changes go Idle -> Attempting -> Suspended -> Idle -> ..., the
\* phase is the one the last change led to, and the run ends only in
\* Attempting.
C8_Phases ==
    /\ state \in {"Idle", "Polling", "Sleeping"}
    /\ (state = "Polling") <=> (fut # 0)
    /\ (state = "Sleeping") <=> (sl # None)
    /\ ret = NotPolled => state = "Idle"
    /\ \A k \in 1..Len(PhaseEvents) : PhaseEvents[k].ev = PhaseChange(k).ev
    /\ state = IF PhaseEvents = <<>> THEN "Idle"
               ELSE PhaseChange(Len(PhaseEvents)).to
    /\ Finished(ret) => state = "Polling"

\* The driver is suspended for the second time: it went round the phases.
C8_Witness ==
    /\ state = "Sleeping"
    /\ Len(PhaseEvents) = 5

\* A run ended in the third attempt.
C8_WitnessEnd ==
    /\ Finished(ret)
    /\ Len(PhaseEvents) = 7

----------------------------------------------------------------------------
(* C9 *)

PendingArms == {"PollingPending", "SleepingPending"}

\* A call of poll whose first polled future, the attempt or the suspension
\* in flight, is pending returns Pending and leaves the driver and the
\* history alone.
PendingPollChangesNothing ==
    steps'.first \in PendingArms =>
        /\ ret' = Pending
        /\ UNCHANGED <<state, fut, sl, backoff, retryable_fn, trace>>

\* A call of poll that ends on a pending future returns Pending and keeps
\* that future in flight.
PendingFutureKept ==
    /\ steps'.last = "PollingPending" =>
          /\ ret' = Pending
          /\ state' = "Polling"
          /\ fut' = CountEv(trace', "call")
          /\ CountEv(trace', "ok") + CountEv(trace', "err") = fut' - 1
    /\ steps'.last = "SleepingPending" =>
          /\ ret' = Pending
          /\ state' = "Sleeping"
          /\ trace'[Len(trace')] = EvSleep(CountEv(trace', "call"), sl')

\* A call of poll goes on from the attempt or the suspension in flight:
\* the history is only extended, first by the resolution of that attempt or
\* the end of that suspension.
PollResumes ==
    /\ Len(trace') >= Len(trace)
    /\ SubSeq(trace', 1, Len(trace)) = trace
    /\ (state = "Polling" /\ trace' # trace) =>
          /\ trace'[Len(trace) + 1].ev \in {"ok", "err"}
          /\ trace'[Len(trace) + 1].att = fut
    /\ (state = "Sleeping" /\ trace' # trace) =>
          trace'[Len(trace) + 1] = EvWake(Calls, sl)

\* Every attempt was started by exactly one call of the operation closure,
\* and the sequence was advanced once per accepted failure.
OnceHoweverPolled ==
    /\ \A n \in 1..Calls :
          Cardinality({i \in Idx : trace[i] = EvCall(n)}) = 1
    /\ Calls = Cardinality({i \in Idx : trace[i].ev = "call"})
    /\ Advances = RetryableFailures

\* C9: a poll that finds the in-flight attempt or suspension pending returns
\* Pending and changes nothing; the next poll resumes the same attempt or
\* suspension, so each attempt is called once and the sequence advanced once
\* per accepted failure however often the driver is polled.
C9_PendingPollChangesNothing ==
    /\ [][PendingPollChangesNothing /\ PendingFutureKept /\ PollResumes]_vars
    /\ []OnceHoweverPolled

\* A poll found the second attempt pending.
C9_Witness ==
    /\ steps.first = "PollingPending"
    /\ ret = Pending
    /\ fut = 2

\* A poll found the second suspension pending.
C9_WitnessSleep ==
    /\ steps.first = "SleepingPending"
    /\ ret = Pending
    /\ Slept = 2

----------------------------------------------------------------------------
(* C10 *)

\* The run ended because the predicate rejected the last attempt's error.
EndedRejected ==
    /\ Len(trace) >= 2
    /\ LastEv = EvWhen(Calls, ret.val, FALSE)
    /\ trace[Len(trace) - 1] = EvErr(Calls, ret.val)

\* The run ended because the sequence, advanced for the last attempt's
\* accepted error, reported exhaustion.
EndedExhausted ==
    /\ Len(trace) >= 3
    /\ LastEv = EvNext(Calls, "nextNone", None)
    /\ trace[Len(trace) - 1] = EvWhen(Calls, ret.val, TRUE)
    /\ trace[Len(trace) - 2] = EvErr(Calls, ret.val)

\* C10: a run ends in one of three ways only: Ok(v) when its latest attempt
\* returned Ok(v), Err(e) when its latest attempt returned Err(e) and the
\* predicate rejected e, Err(e) when its latest attempt returned Err(e) and
\* the sequence advanced for e reported exhaustion.  A failure for which
\* the sequence yielded a delay does not end the run.
C10_ThreeWaysToEnd ==
    /\ Finished(ret) => ret.tag \in {"Ok", "Err"}
    /\ ret.tag = "Ok" => LastEv = EvOk(Calls, ret.val)
    /\ ret.tag = "Err" => (EndedRejected \/ EndedExhausted)
    /\ ~(EndedRejected /\ EndedExhausted)
    /\ \A i \in Idx :
          trace[i].ev = "nextSome" =>
              /\ Len(trace) >= i + 2
              /\ Finished(ret) => trace[i].att < Calls

----------------------------------------------------------------------------
(* C11 *)

\* A call of poll in which the first future polled is ready: the attempt
\* in flight returns, or the sleep in progress elapses (an Idle driver
\* starts its attempt without waiting for anything).
Completes == Poll /\ steps'.first \notin PendingArms

\* The drivers started over a policy without jitter (the driver does not
\* look at the durations it is given).
FairInit == Init /\ ~backoff.jitter

\* The driver under an executor that polls it again whenever a future it
\* waits for is ready, every attempt and every sleep completing eventually.
FairSpec == FairInit /\ [][Next]_vars /\ WF_vars(Completes)

\* Every fair run comes to an end, be it by a result or by a panic.
EventuallyEnds == <>Finished(ret)

\* C11: with a finite sequence (at most n = max_times delays, usize::MAX
\* when max_times is not set), every attempt and sleep completing, the
\* driver eventually returns Ready (Ok or Err), and never invokes the
\* operation more than n + 1 times.
C11_Terminates ==
    /\ <>(ret.tag \in {"Ok", "Err"})
    /\ [](Calls <= MaxTimesOf(backoff) + 1)

----------------------------------------------------------------------------
(* C12: the blocking driver *)

\* BlockingRetry::new over the policy and the predicate of this run: the
\* blocking driver before call.
BlockingNew ==
    [backoff |-> Build(backoff), retryable_fn |-> retryable_fn,
     ret |-> NotPolled, trace |-> <<>>]

\* Mutant of BlockingSleep: the thread sleeps before the hook is told.
BlockingSleep_NotifyLast(c, n, e, o) ==
    [c EXCEPT !.backoff = o.b,
              !.trace = @ \o <<EvErr(n, e), EvWhen(n, e, TRUE),
                               EvNext(n, "nextSome", o.dur),
                               EvSleep(n, o.dur), EvWake(n, o.dur),
                               EvNotify(n, e, o.dur)>>]

\* Some(dur) => { (self.notify)(&err, dur); thread::sleep(dur); }
\* thread::sleep returns when the sleep is over.
BlockingSleep(c, n, e, o) ==
    [c EXCEPT !.backoff = o.b,
              !.trace = @ \o <<EvErr(n, e), EvWhen(n, e, e \in c.retryable_fn),
                               EvNext(n, "nextSome", o.dur),
                               EvNotify(n, e, o.dur),
                               EvSleep(n, o.dur), EvWake(n, o.dur)>>]

\* The end of call after attempt n failed with e: out is how the sequence
\* answered ("-" when it was not advanced).
BlockingEnd(c, n, e, r, out) ==
    [c EXCEPT !.ret = r,
              !.trace = @ \o <<EvErr(n, e), EvWhen(n, e, e \in c.retryable_fn)>>
                          \o (IF out = "-" THEN <<>> ELSE <<EvNext(n, out, None)>>)]

\* The inputs of a run, read off its history: the results the operation
\* returned, in order, and the answers of the sequence, in order.
IsResultEvent(e) == e.ev \in {"ok", "err"}
IsNextEvent(e) == e.ev \in NextKinds
OpsOf(tr) == SelectSeq(tr, IsResultEvent)
NextsOf(tr) == SelectSeq(tr, IsNextEvent)

\* self.backoff.next() answering as the sequence did in the other run:
\* the outcomes of ExponentialNext that are the answer x.
SameAnswer(b, x) ==
    {o \in ExponentialNext(b) : "next" \o o.out = x.ev /\ o.dur = x.dur}

\* The run stopped because the inputs ran out or did not fit the sequence.
Starved == [tag |-> "Starved", val |-> 0]

RECURSIVE call(_, _, _)
\* BlockingRetry::call, the loop from the blocking driver c, the operation
\* returning the results ops on its successive invocations and the
\* sequence answering nexts on its successive advances.
call(c, ops, nexts) ==
    IF ops = <<>> THEN [c EXCEPT !.ret = Starved]
    ELSE
      LET n  == CountEv(c.trace, "call") + 1
          c1 == [c EXCEPT !.trace = Append(@, EvCall(n))]
          r  == Head(ops)
      IN  IF r.ev = "ok"
          THEN [c1 EXCEPT !.ret = Ok(r.val), !.trace = Append(@, EvOk(n, r.val))]
          ELSE IF r.val \notin c.retryable_fn
          THEN BlockingEnd(c1, n, r.val, Err(r.val), "-")
          ELSE IF nexts = <<>> \/ SameAnswer(c.backoff, Head(nexts)) = {}
          THEN [c1 EXCEPT !.ret = Starved]
          ELSE LET o == CHOOSE o \in SameAnswer(c.backoff, Head(nexts)) : TRUE
               IN  CASE o.out = "None" ->
                          BlockingEnd([c1 EXCEPT !.backoff = o.b], n, r.val,
                                      Err(r.val), "nextNone")
                     [] o.out = "Panic" ->
                          BlockingEnd([c1 EXCEPT !.backoff = o.b], n, r.val,
                                      Panicked, "nextPanic")
                     [] OTHER ->
                          call(BlockingSleep(c1, n, r.val, o), Tail(ops), Tail(nexts))

\* What a finished run of either driver shows: its result, its events and
\* the sequence it leaves behind.
Outcome(d) == [ret |-> d.ret, trace |-> d.trace, backoff |-> d.backoff]

\* The blocking driver run on the inputs of this run of the async driver.
BlockingRun == call(BlockingNew, OpsOf(trace), NextsOf(trace))

\* C12: whenever the async driver has finished, the blocking driver over
\* the same policy and predicate, given the same results of the operation
\* and the same answers of the sequence, returns the same result after the
\* same events in the same order (invoke, result, predicate, advance,
\* notify(e, d), sleep(d), wake).
C12_SameAsBlocking ==
    Finished(ret) => Outcome(BlockingRun) = Outcome(Driver)

\* A run of the async driver that ended in an error after two retries,
\* each with its notify, sleep and wake-up, and its blocking twin.
C12_Witness ==
    /\ ret.tag = "Err"
    /\ Slept = 2
    /\ Calls = 3
    /\ BlockingRun.ret = ret
    /\ CountEv(BlockingRun.trace, "notify") = 2

----------------------------------------------------------------------------
(* The backoff sequences on their own: a sequence is built from a policy   *)
(* and advanced time after time; trace records what each advance answered. *)

\* Largest max_times a sequence on its own is configured with, and the
\* number of advances it is followed for.
SeqMaxTimes == MaxTimes + 1
MaxAdvances == SeqMaxTimes + 2
\* Largest growth factor configured.
MaxFactor == 2

\* The exponential policies.
ExponentialBuilders ==
    [jitter      : BOOLEAN,
     factor      : 1..MaxFactor,
     min_delay   : Durations,
     max_delay   : {None, 2, 5},
     max_times   : {None} \cup 0..SeqMaxTimes,
     total_delay : {None, 3, DurationMax}]

\* The Fibonacci policies.
FibonacciBuilders ==
    [jitter    : BOOLEAN,
     min_delay : Durations,
     max_delay : {None, 3, 5},
     max_times : {None} \cup 0..SeqMaxTimes]

\* The constant policies.
ConstantBuilders ==
    [delay     : Durations,
     max_times : {None} \cup 0..SeqMaxTimes,
     jitter    : BOOLEAN]

\* The advances made so far, and whether the latest one panicked.
Advanced == Len(trace)
Unwound == trace # <<>> /\ trace[Len(trace)].ev = "nextPanic"

\* One call of next() on the sequence, answering o.
Advance(o) ==
    /\ Advanced < MaxAdvances
    /\ ~Unwound
    /\ backoff' = o.b
    /\ trace' = Append(trace, EvNext(Advanced + 1, "next" \o o.out, o.dur))
    /\ UNCHANGED <<state, fut, sl, retryable_fn, ret, steps, notify_fn,
                   sleep_fn, builder, other, ctx, debug_assertions>>

ExponentialAdvance ==
    IsExponential(backoff) /\ \E o \in ExponentialNext(backoff) : Advance(o)

FibonacciAdvance ==
    IsFibonacci(backoff) /\ \E o \in FibonacciNext(backoff) : Advance(o)

ConstantAdvance ==
    IsConstant(backoff) /\ \E o \in ConstantNext(backoff) : Advance(o)

SeqInit ==
    /\ state = "Idle"
    /\ fut = 0
    /\ sl = None
    /\ builder \in ExponentialBuilders \cup FibonacciBuilders
                   \cup ConstantBuilders
    /\ backoff = BuildOf(builder)
    /\ other = <<>>
    /\ notify_fn = "default"
    /\ sleep_fn = "sleeper"
    /\ retryable_fn = Errors
    /\ ret = NotPolled
    /\ steps = NoSteps
    /\ trace = <<>>
    /\ ctx = NoContext
    /\ debug_assertions = TRUE

SeqNext == ExponentialAdvance \/ FibonacciAdvance \/ ConstantAdvance

SeqSpec == SeqInit /\ [][SeqNext]_vars

----------------------------------------------------------------------------
(* C13 *)

\* The answer a sequence limited to max_times delays owes to advance i.
Owed(b, i) == IF i <= b.max_times THEN "nextSome" ELSE "nextNone"

\* The sequence has a total-delay budget (exponential policies only).
HasBudget(b) == IsExponential(b) /\ b.total_delay # None

----------------------------------------------------------------------------
(* C14 *)

\* C14: over a policy with max_times = 0 the sequence answers every
\* advance with exhaustion, so the first failure ends the run even when
\* the predicate accepts it: the operation is invoked once, nothing is
\* notified, no sleep is started, and the error of that attempt is
\* returned.
C14_MaxTimesZero ==
    backoff.max_times = 0 =>
        /\ Calls <= 1
        /\ Yielded = 0 /\ Notified = 0 /\ Slept = 0
        /\ \A i \in Idx :
              /\ trace[i].ev \in NextKinds => trace[i].ev = "nextNone"
              /\ trace[i].ev = "err" => ret = Err(trace[i].val)

\* The first attempt failed with an error the predicate accepts, the
\* sequence with max_times = 0 was advanced and the run ended.
C14_Witness ==
    /\ backoff.max_times = 0
    /\ ret.tag = "Err" /\ ret.val \in retryable_fn
    /\ trace = <<EvCall(1), EvErr(1, ret.val), EvWhen(1, ret.val, TRUE),
                 EvNext(1, "nextNone", None)>>

----------------------------------------------------------------------------
(* C15 *)

RECURSIVE Pow(_, _)
Pow(x, n) == IF n = 0 THEN 1 ELSE x * Pow(x, n - 1)

\* min(max_delay, min_delay * factor^i), the largest duration standing in
\* for a missing max_delay.
Ideal(b, i) ==
    Min(IF b.max_delay = None THEN DurationMax ELSE b.max_delay,
        b.min_delay * Pow(b.factor, i))

\* An exponential policy without jitter and without budget whose min_delay
\* is not above its max_delay.
PlainExponential(b) ==
    /\ IsExponential(b) /\ ~b.jitter /\ b.total_delay = None
    /\ b.max_delay = None \/ b.min_delay <= b.max_delay

\* Advance i answered as the ideal sequence does: the ideal delay for the
\* first max_times advances, exhaustion after them.
IdealAnswer(b, i) ==
    IF i <= MaxTimesOf(b) THEN EvNext(i, "nextSome", Ideal(b, i - 1))
    ELSE EvNext(i, "nextNone", None)

\* C15 as claimed: advance i + 1 yields min(max_delay, min_delay * factor^i)
\* for 0 <= i < max_times, advance max_times + 1 reports exhaustion.
C15_IdealDelays ==
    PlainExponential(backoff) =>
        \A i \in 1..Advanced : trace[i] = IdealAnswer(backoff, i)

\* x seconds are an f32 exactly.
Representable(x) == F32Round(x) = x

\* C15 amended: the same, for the policies whose products
\* min_delay * factor^i are all exactly representable as f32 seconds (the
\* product is computed in f32, other values come out rounded).
C15_IdealDelaysWhenRepresentable ==
    (/\ PlainExponential(backoff)
     /\ \A i \in 0..(Advanced - 1) :
           Representable(backoff.min_delay * Pow(backoff.factor, i))) =>
        \A i \in 1..Advanced : trace[i] = IdealAnswer(backoff, i)

\* The default shape: 1, 2, 4, then exhaustion; and the capped one: 1, 2, 2.
C15_Witness ==
    /\ PlainExponential(backoff) /\ backoff.max_times = 3
    /\ backoff.min_delay = 1 /\ backoff.factor = 2
    /\ Advanced = 4 /\ trace[4].ev = "nextNone"
    /\ \/ backoff.max_delay = None /\ trace[3].dur = 4
       \/ backoff.max_delay = 2 /\ trace[3].dur = 2

----------------------------------------------------------------------------
(* C16 *)

\* C16: an exponential sequence with max_delay set and jitter off never
\* yields a delay above max_delay, the first delay included, whatever
\* min_delay, factor and max_times are.
C16_WithinMaxDelay ==
    (IsExponential(backoff) /\ backoff.max_delay # None /\ ~backoff.jitter) =>
        \A i \in 1..Advanced :
            trace[i].ev = "nextSome" => trace[i].dur <= backoff.max_delay

\* The same for the delays after the first one.
LaterWithinMaxDelay ==
    (IsExponential(backoff) /\ backoff.max_delay # None /\ ~backoff.jitter) =>
        \A i \in 2..Advanced :
            trace[i].ev = "nextSome" => trace[i].dur <= backoff.max_delay

----------------------------------------------------------------------------
(* C17 *)

RECURSIVE SumYielded(_)
\* The sum of the delays yielded in the history tr.
SumYielded(tr) ==
    IF tr = <<>> THEN 0
    ELSE SumYielded(SubSeq(tr, 1, Len(tr) - 1))
         + (IF tr[Len(tr)].ev = "nextSome" THEN tr[Len(tr)].dur ELSE 0)

\* The delays, jitter included, the next advance of b can come up with.
Candidates(b) ==
    IF b.jitter
    THEN {SaturatingAdd(NextDelay(b), j) : j \in JitterOf(NextDelay(b))}
    ELSE {NextDelay(b)}

\* An exponential sequence with a total-delay budget.
Budgeted == IsExponential(backoff) /\ backoff.total_delay # None

\* The sum of the delays yielded so far is within the budget.
WithinBudget == Budgeted => SumYielded(trace) <= backoff.total_delay

\* An advance made while attempts remain yields its delay when the sum
\* stays within the budget (reaching it exactly included) and reports
\* exhaustion when the sum would exceed it.
BudgetDecides ==
    (Budgeted /\ trace' # trace /\ backoff.attempts < MaxTimesOf(backoff)) =>
        LET ev == trace'[Len(trace')]
            fit == {t \in Candidates(backoff) :
                       SumYielded(trace) + t <= backoff.total_delay}
        IN  /\ ev.ev \in {"nextSome", "nextNone"}
            /\ ev.ev = "nextSome" => ev.dur \in fit
            /\ ev.ev = "nextNone" => fit # Candidates(backoff)
            /\ fit = Candidates(backoff) => ev.ev = "nextSome"

\* C17: with a total-delay budget T the sum of the delays yielded so far
\* never exceeds T; an advance reports exhaustion when its delay would
\* take the sum over T, even with attempts left, and yields a delay that
\* takes the sum to exactly T.
C17_TotalDelayBudget == []WithinBudget /\ [][BudgetDecides]_vars

\* The same, advances that panic apart.
BudgetDecidesUnlessPanic ==
    [][trace'[Len(trace')].ev = "nextPanic" \/ BudgetDecides]_vars

----------------------------------------------------------------------------
(* C18 *)

RECURSIVE DelayAt(_, _)
\* The delay advance i yields from the jitter-free exponential sequence b
\* (i >= 1, no budget, attempts left).
DelayAt(b, i) ==
    IF i = 1 THEN NextDelay(b)
    ELSE DelayAt([b EXCEPT !.current_delay = NextDelay(b)], i - 1)

\* The sequence built from the policy of b with the jitter off.
JitterOff(b) ==
    [b EXCEPT !.jitter = FALSE, !.current_delay = None, !.attempts = 0,
              !.cumulative_delay = 0]

\* An exponential sequence with jitter and without budget.
Jittered ==
    IsExponential(backoff) /\ backoff.jitter /\ backoff.total_delay = None

\* Jitter does not compound: the delay recorded for the next
\* multiplication is the one the jitter-free policy yields.
NotCompounded ==
    (Jittered /\ Advanced >= 1 /\ trace[Advanced].ev = "nextSome") =>
        backoff.current_delay = DelayAt(JitterOff(backoff), Advanced)

----------------------------------------------------------------------------
(* C19 *)

\* The delay from which a Fibonacci sequence stops growing: max_delay, or
\* the largest duration when there is none.
CapOf(b) == IF b.max_delay = None THEN DurationMax ELSE b.max_delay

\* A Fibonacci sequence with the jitter off.
PlainFibonacci == IsFibonacci(backoff) /\ ~backoff.jitter

\* C19: a Fibonacci sequence without jitter yields min_delay on its first
\* and on its second advance, and from the third advance on, while the
\* preceding delay has not reached the cap, the sum of the two preceding
\* yielded delays (saturated at the largest duration); with max_times set
\* it yields on max_times advances and reports exhaustion afterwards.
C19_FibonacciDelays ==
    PlainFibonacci =>
        \A i \in 1..Advanced :
            /\ backoff.max_times # None => trace[i].ev = Owed(backoff, i)
            /\ trace[i].ev = "nextSome" =>
                  IF i <= 2 THEN trace[i].dur = backoff.min_delay
                  ELSE trace[i - 1].dur < CapOf(backoff) =>
                          trace[i].dur = SaturatingAdd(trace[i - 1].dur,
                                                       trace[i - 2].dur)

\* min_delay 1, no max_delay, max_times 4, advanced five times:
\* 1, 1, 2, 3, then exhaustion.
C19_Witness ==
    /\ PlainFibonacci /\ backoff.max_delay = None /\ backoff.max_times = 4
    /\ Advanced = 5
    /\ trace[1].dur = 1 /\ trace[2].dur = 1 /\ trace[3].dur = 2
    /\ trace[4].dur = 3 /\ trace[5].ev = "nextNone"

----------------------------------------------------------------------------
(* C20 *)

\* C20: a Fibonacci sequence with max_delay set, the jitter off and
\* min_delay <= max_delay never yields a delay above max_delay.
C20_FibonacciWithinMaxDelay ==
    (PlainFibonacci /\ backoff.max_delay # None
        /\ backoff.min_delay <= backoff.max_delay) =>
        \A i \in 1..Advanced :
            trace[i].ev = "nextSome" => trace[i].dur <= backoff.max_delay

\* What holds instead: a delay below max_delay is the last one to grow, so
\* a yielded delay stays below the sum of max_delay and its predecessor.
FibonacciStopsGrowing ==
    (PlainFibonacci /\ backoff.max_delay # None) =>
        \A i \in 2..Advanced :
            (trace[i].ev = "nextSome" /\ trace[i - 1].dur >= backoff.max_delay)
                => trace[i].dur = trace[i - 1].dur

----------------------------------------------------------------------------
(* C21 *)

\* The Fibonacci sequence built from the policy of b with the jitter off.
FibonacciJitterOff(b) ==
    FibonacciBuild([jitter |-> FALSE, min_delay |-> b.min_delay,
                    max_delay |-> b.max_delay, max_times |-> b.max_times])

RECURSIVE FibonacciAfter(_, _)
\* What advance i of the jitter-free Fibonacci sequence b answers, and the
\* sequence it leaves (i >= 1).
FibonacciAfter(b, i) ==
    LET o == CHOOSE x \in FibonacciNext(b) : TRUE
    IN  IF i = 1 THEN o ELSE FibonacciAfter(o.b, i - 1)

\* A Fibonacci sequence with the jitter on.
JitteredFibonacci == IsFibonacci(backoff) /\ backoff.jitter

\* The jitter drawn so far has left the sequence where the jitter-free one
\* is after as many advances.
FibonacciNotCompounded ==
    (JitteredFibonacci /\ Advanced >= 1 /\ trace[Advanced].ev = "nextSome") =>
        [backoff EXCEPT !.jitter = FALSE]
            = FibonacciAfter(FibonacciJitterOff(backoff), Advanced).b

----------------------------------------------------------------------------
(* C22 *)

\* With the jitter off every value a Constant sequence yields is the
\* configured delay.
ConstantWithoutJitter ==
    (IsConstant(backoff) /\ ~backoff.jitter) =>
        \A i \in 1..Advanced :
            trace[i].ev = "nextSome" => trace[i].dur = backoff.delay

----------------------------------------------------------------------------
(* C23 *)

\* The sequence has no maximum attempt count and no total-delay budget.
Unbounded == backoff.max_times = None /\ ~HasBudget(backoff)

\* Advance i is below the ceiling of the attempt counter; the Constant
\* sequence does not count attempts in this mode.
BelowCeiling(b, i) == IsConstant(b) \/ i <= UsizeMax

\* C23: without a maximum attempt count and without a total-delay budget
\* every advance below the attempt counter's ceiling yields a delay (every
\* advance at all for the Constant sequence).
C23_NeverExhausted ==
    Unbounded =>
        \A i \in 1..Advanced :
            BelowCeiling(backoff, i) => trace[i].ev = "nextSome"

\* What holds instead: such an advance yields a delay unless it panics.
NeverExhaustedUnlessPanic ==
    Unbounded =>
        \A i \in 1..Advanced :
            BelowCeiling(backoff, i) =>
                trace[i].ev \in {"nextSome", "nextPanic"}

\* Exhaustion is reported in this mode only at the ceiling of the attempt
\* counter.
ExhaustedAtCeilingOnly ==
    Unbounded =>
        \A i \in 1..Advanced :
            trace[i].ev = "nextNone" => ~IsConstant(backoff) /\ i > UsizeMax

----------------------------------------------------------------------------
(* Two sequences built from one policy: backoff, with its history trace,   *)
(* and other, built from the same builder by (&builder).build() and        *)
(* advanced in any interleaving with the first.                            *)

\* The policies used twice: every jitter-free one, and the jittered ones
\* limited to two delays.
PairBuilders ==
    {p \in ExponentialBuilders \cup FibonacciBuilders \cup ConstantBuilders :
        ~p.jitter \/ p.max_times = 2}

\* Mutant of Fresh: the sequence is built with one attempt already counted.
Fresh_Used(p) == [b |-> [BuildOf(p) EXCEPT !.attempts = 1], out |-> <<>>]

\* A sequence just built from the policy p, with its empty history.
Fresh(p) == [b |-> BuildOf(p), out |-> <<>>]

\* The sequence s and its history after next() answered o.
Stepped(s, o) ==
    [b |-> o.b,
     out |-> Append(s.out, EvNext(Len(s.out) + 1, "next" \o o.out, o.dur))]

\* A second sequence was built, and that sequence.
Twice == other # <<>>
Second == other[1]

\* (&builder).build(): the builder is copied, a second sequence is built.
BuildAnother ==
    /\ other = <<>>
    /\ other' = <<Fresh(builder)>>
    /\ UNCHANGED <<state, fut, sl, backoff, retryable_fn, ret, steps, trace,
                   notify_fn, sleep_fn, builder, ctx, debug_assertions>>

\* One call of next() on the second sequence.
AdvanceOther ==
    /\ Twice
    /\ Len(Second.out) < MaxAdvances
    /\ ~(Second.out # <<>> /\ Second.out[Len(Second.out)].ev = "nextPanic")
    /\ \E o \in NextOf(Second.b) : other' = <<Stepped(Second, o)>>
    /\ UNCHANGED <<state, fut, sl, backoff, retryable_fn, ret, steps, trace,
                   notify_fn, sleep_fn, builder, ctx, debug_assertions>>

PairInit == SeqInit /\ builder \in PairBuilders

PairNext == SeqNext \/ BuildAnother \/ AdvanceOther

PairSpec == PairInit /\ [][PairNext]_vars

----------------------------------------------------------------------------
(* C24 *)

\* Two histories answer alike as far as both go.
Agree(a, b) == \A i \in 1..Min(Len(a), Len(b)) : a[i] = b[i]

\* C24: two sequences built from the same jitter-free policy answer every
\* advance alike, delay for delay and exhaustion at the same position,
\* whatever the strategy and its parameters.
C24_Determinism ==
    (Twice /\ ~builder.jitter) => Agree(trace, Second.out)

\* Two exponential sequences of one policy, both driven to exhaustion
\* through the same three delays.
C24_Witness ==
    /\ Twice /\ IsExponential(backoff) /\ ~builder.jitter
    /\ Len(trace) = 4 /\ Second.out = trace
    /\ trace[3].ev = "nextSome" /\ trace[3].dur > trace[1].dur
    /\ trace[4].ev = "nextNone"

----------------------------------------------------------------------------
(* C25 *)

\* b is a sequence of the policy p in its initial state: the parameters of
\* p, no attempt counted, no current delay, nothing accumulated.
InitialOf(p, b) ==
    /\ \A f \in DOMAIN p : b[f] = p[f]
    /\ b.attempts = 0
    /\ "current_delay" \in DOMAIN b => b.current_delay = None
    /\ "previous_delay" \in DOMAIN b => b.previous_delay = None
    /\ "cumulative_delay" \in DOMAIN b => b.cumulative_delay = 0

\* Every sequence that has not been advanced is in the initial state of
\* the policy.
StartsInitial ==
    /\ trace = <<>> => InitialOf(builder, backoff)
    /\ (Twice /\ Second.out = <<>>) => InitialOf(builder, Second.b)
    /\ (Twice /\ Second.out = <<>> /\ trace = <<>>) => Second.b = backoff

\* Building leaves the policy and the sequence already built alone, and
\* advancing either sequence leaves the policy and the other sequence,
\* state and history, alone.
OthersUntouched ==
    /\ builder' = builder
    /\ other' # other => backoff' = backoff /\ trace' = trace
    /\ (backoff' # backoff \/ trace' # trace) => other' = other

\* C25: a policy can be reused: building never changes it, every sequence
\* built from it starts in the same initial state, and building or
\* advancing one sequence, in any interleaving, changes neither the state
\* nor the history of the other.
C25_PolicyReusable == []StartsInitial /\ [][OthersUntouched]_vars

\* Two jittered sequences of one policy, the second built after the first
\* had been advanced, went their own ways: different first delays, the
\* first one exhausted, the second one not.
C25_Witness ==
    /\ Twice /\ builder.jitter
    /\ Len(trace) = 3 /\ Len(Second.out) = 1
    /\ trace[1].dur # Second.out[1].dur
    /\ trace[3].ev = "nextNone" /\ Second.b.attempts = 1

----------------------------------------------------------------------------
(* C26 *)

\* No advance made so far has panicked.
ReturnedNormally == \A i \in 1..Advanced : trace[i].ev # "nextPanic"

\* Once the growing delay of an exponential sequence without max_delay
\* (and without jitter, which is added to the delay) has reached the
\* largest duration, every later delay is the largest duration.
SaturatedStays ==
    (IsExponential(backoff) /\ backoff.max_delay = None /\ ~backoff.jitter) =>
        \A i \in 1..Advanced : \A j \in i..Advanced :
            (/\ trace[i].ev = "nextSome" /\ trace[i].dur = DurationMax
             /\ trace[j].ev = "nextSome") => trace[j].dur = DurationMax

\* C26: every advance on an exponential sequence returns a delay or
\* exhaustion, whatever the parameters: a product beyond the largest
\* duration yields the largest duration, from then on, and the sum kept
\* for the total-delay budget saturates instead of overflowing.
C26_ExponentialReturnsNormally ==
    IsExponential(backoff) => ReturnedNormally /\ SaturatedStays

\* What holds instead: without a total-delay budget no advance panics.
ReturnsNormallyWithoutBudget ==
    (IsExponential(backoff) /\ backoff.total_delay = None) => ReturnedNormally

----------------------------------------------------------------------------
(* C27 *)

\* Once the sum of a jitter-free Fibonacci sequence has reached the largest
\* duration, every later delay is the largest duration.
FibonacciSaturatedStays ==
    PlainFibonacci =>
        \A i \in 1..Advanced : \A j \in i..Advanced :
            (/\ trace[i].ev = "nextSome" /\ trace[i].dur = DurationMax
             /\ trace[j].ev = "nextSome") => trace[j].dur = DurationMax

\* C27: every advance on a Fibonacci or Constant sequence returns a delay
\* or exhaustion, whatever the parameters: the Fibonacci sum saturates at
\* the largest duration and stays there, and the jitter added to a delay at
\* or near the largest duration saturates instead of overflowing.
C27_FibonacciConstantReturnNormally ==
    (IsFibonacci(backoff) \/ IsConstant(backoff)) =>
        ReturnedNormally /\ FibonacciSaturatedStays

\* What holds instead: with the jitter off no advance panics.
ReturnsNormallyWithoutJitter ==
    ((IsFibonacci(backoff) \/ IsConstant(backoff)) /\ ~backoff.jitter) =>
        ReturnedNormally

----------------------------------------------------------------------------
(* The driver in each of its configurations: with the notify hook of      *)
(* Retry::notify or the empty closure of Retry::new, with a sleeper or     *)
(* with none.                                                              *)

\* The iterators passed as policies: up to MaxTimes durations, at any
\* position.
Iterators ==
    UNION { {Iterator(s, k) : k \in 1..(Len(s) + 1)}
            : s \in UNION {[1..n -> {1, 2}] : n \in 0..MaxTimes} }

ConfiguredInit ==
    /\ state = "Idle"
    /\ fut = 0
    /\ sl = None
    /\ builder \in {p \in Builders : ~p.jitter} \cup Iterators
    /\ backoff = BuildOf(builder)
    /\ other = <<>>
    /\ notify_fn \in {"default", "hook"}
    /\ sleep_fn \in {"sleeper", "unit"}
    /\ retryable_fn \in SUBSET Errors
    /\ ret = NotPolled
    /\ steps = NoSteps
    /\ trace = <<>>
    /\ ctx = NoContext
    /\ debug_assertions = TRUE

ConfiguredSpec == ConfiguredInit /\ [][Next]_vars

----------------------------------------------------------------------------
(* C28 *)

\* The driver d as it would be without a notify hook: the empty closure in
\* place of the hook, and a history without the hook's events.
IsNotNotify(e) == e.ev # "notify"
HookFree(d) ==
    [d EXCEPT !.notify_fn = "default", !.trace = SelectSeq(@, IsNotNotify)]

\* C28: the notify hook is observational only.  Whatever a call of poll
\* makes of a driver with a hook, the same call makes of the same driver
\* without the hook, the hook's events apart, and the other way round: the
\* same invocations of the operation, the same advances of the sequence,
\* the same sleeps in the same order, the same result.
C28_NotifyObservational ==
    ~Finished(ret) =>
        {HookFree(x) : x \in PollLoop([Driver EXCEPT !.steps = NoSteps])}
            = PollLoop(HookFree([Driver EXCEPT !.steps = NoSteps]))

\* A run with a hook that told it of two retries and ended with an error.
C28_Witness ==
    /\ notify_fn = "hook" /\ sleep_fn = "sleeper"
    /\ ret.tag = "Err"
    /\ Notified = 2 /\ Slept = 2 /\ Calls = 3

----------------------------------------------------------------------------
(* C29 *)

IsSleepEvent(e) == e.ev = "sleep"
\* The sleeps started so far, in order.
SleepsOf(tr) == SelectSeq(tr, IsSleepEvent)

\* The error of the attempt invoked last, None if it has not failed.
CurrentError ==
    IF \E i \in Idx : trace[i].ev = "err" /\ trace[i].att = Calls
    THEN trace[CHOOSE i \in Idx : trace[i].ev = "err" /\ trace[i].att = Calls].val
    ELSE None

\* C29: an iterator of durations passed as the policy is the sequence the
\* driver uses, as it is; the driver advances it once per retryable
\* failure, and the k-th of these advances gets the k-th item from the
\* position the iterator was passed at, which the driver then sleeps, or,
\* the items being used up, ends the run with the current error.
C29_IteratorAsPolicy ==
    (IsIterator(builder) /\ sleep_fn = "sleeper") =>
        /\ trace = <<>> => backoff = builder
        /\ backoff.items = builder.items
        /\ Advances = RetryableFailures
        /\ Len(SleepsOf(trace)) = Yielded
        /\ \A k \in 1..Advances :
              LET i == builder.pos + k - 1
                  x == NextsOf(trace)[k]
              IN  IF i <= Len(builder.items)
                  THEN /\ x.ev = "nextSome"
                       /\ x.dur = builder.items[i]
                       /\ SleepsOf(trace)[k].dur = builder.items[i]
                       /\ SleepsOf(trace)[k].att = x.att
                  ELSE /\ x.ev = "nextNone"
                       /\ k = Advances
                       /\ ret = Err(CurrentError)

\* The iterator over 1, 2, 1 passed at its second item: the driver slept 2,
\* then 1, and the third retryable failure ended the run.
C29_Witness ==
    /\ IsIterator(builder) /\ sleep_fn = "sleeper"
    /\ builder.items = <<1, 2, 1>> /\ builder.pos = 2
    /\ Slept = 2 /\ SleepsOf(trace)[1].dur = 2 /\ SleepsOf(trace)[2].dur = 1
    /\ LastEv.ev = "nextNone" /\ ret.tag = "Err" /\ Calls = 3

----------------------------------------------------------------------------
(* C30 *)

\* The run reached the point of starting a suspension: a retryable failure
\* for which the sequence yielded a delay.
NeededToSuspend == Yielded >= 1

C30_WitnessExhausted ==
    /\ sleep_fn = "unit"
    /\ ret.tag = "Err" /\ ret.val \in retryable_fn
    /\ LastEv.ev = "nextNone"

----------------------------------------------------------------------------
(* The context-carrying driver: Retry with .context(value) *)

\* The driver of retry_with_context: the state machine of Retry::poll, one
\* step at a time, with the context passed into every attempt and handed
\* back with its result.  ctx says what each party holds of the context:
\* None when it holds nothing, the context's value otherwise.
Contexts == {1, 2}

EvContext(c) == Event("context", 0, c, None, FALSE)   \* .context(c)
EvGive(n, c) == Event("call", n, c, None, FALSE)      \* (future_fn)(ctx) with ctx = c
EvBack(n, c) == Event("back", n, c, None, FALSE)      \* the attempt resolved to (c, _)

\* .context(c): the driver holds the context for the run.
WithContext(c) == [driver |-> c, attempt |-> None, caller |-> None]

\* The driver moves its context into the attempt it starts.
Given(c) == [driver |-> None, attempt |-> c.driver, caller |-> None]

\* Mutant of HandedBack: the driver keeps the value it gave to the attempt.
HandedBack_KeepsGiven(c, v) == [driver |-> c.attempt, attempt |-> None, caller |-> None]

\* The attempt resolved to (v, result): the driver holds v again.
HandedBack(c, v) == [driver |-> v, attempt |-> None, caller |-> None]

\* Poll::Ready((ctx, result)): the context goes to the caller.
Returned(c) == [driver |-> None, attempt |-> None, caller |-> c.driver]

ContextInit ==
    /\ state = "Idle"
    /\ fut = 0
    /\ sl = None
    /\ builder \in Iterators
    /\ backoff = BuildOf(builder)
    /\ other = <<>>
    /\ notify_fn = "hook"
    /\ sleep_fn = "sleeper"
    /\ retryable_fn \in SUBSET Errors
    /\ ret = NotPolled
    /\ steps = NoSteps
    /\ \E c \in Contexts : /\ ctx = WithContext(c)
                           /\ trace = <<EvContext(c)>>
    /\ debug_assertions = TRUE

\* State::Idle: the operation is invoked with the context.
ContextCall ==
    /\ state = "Idle"
    /\ ~Finished(ret)
    /\ state' = "Polling"
    /\ fut' = Calls + 1
    /\ ctx' = Given(ctx)
    /\ trace' = Append(trace, EvGive(Calls + 1, ctx.driver))
    /\ ret' = Pending
    /\ UNCHANGED <<sl, backoff, retryable_fn, steps, notify_fn, sleep_fn,
                   builder, other, debug_assertions>>

\* State::Polling, the attempt resolved to (c, Ok(v)): the run ends with
\* the context and the value.
ContextOk ==
    /\ state = "Polling"
    /\ ~Finished(ret)
    /\ \E v \in Values, c \in Contexts :
          /\ ctx' = Returned(HandedBack(ctx, c))
          /\ trace' = trace \o <<EvBack(fut, c), EvOk(fut, v)>>
          /\ ret' = Ok(v)
    /\ UNCHANGED <<state, fut, sl, backoff, retryable_fn, steps, notify_fn,
                   sleep_fn, builder, other, debug_assertions>>

\* State::Polling, the attempt resolved to (c, Err(e)): the run ends with
\* the context and the error when the predicate rejects e or the sequence
\* is exhausted, and sleeps with the context in the driver otherwise.
ContextErr ==
    /\ state = "Polling"
    /\ ~Finished(ret)
    /\ \E e \in Errors, c \in Contexts :
          LET d0 == [Driver EXCEPT !.trace = Append(@, EvBack(fut, c))]
          IN  \E d \in IF ~IsRetryable(d0, e)
                       THEN {NotRetryable(d0, e)}
                       ELSE {IF o.out = "None" THEN Exhausted(d0, e, o)
                                               ELSE StartSleep(d0, e, o)
                             : o \in NextOf(backoff)} :
                /\ state' = d.state
                /\ fut' = d.fut
                /\ sl' = d.sl
                /\ backoff' = d.backoff
                /\ ret' = d.ret
                /\ trace' = d.trace
                /\ ctx' = IF Finished(d.ret) THEN Returned(HandedBack(ctx, c))
                                             ELSE HandedBack(ctx, c)
    /\ UNCHANGED <<retryable_fn, steps, notify_fn, sleep_fn, builder, other,
                   debug_assertions>>

\* State::Sleeping, the sleep resolved: back to State::Idle.
ContextWake ==
    /\ state = "Sleeping"
    /\ state' = "Idle"
    /\ sl' = None
    /\ trace' = Append(trace, EvWake(Calls, sl))
    /\ UNCHANGED <<fut, backoff, retryable_fn, ret, steps, notify_fn,
                   sleep_fn, builder, other, ctx, debug_assertions>>

ContextNext == ContextCall \/ ContextOk \/ ContextErr \/ ContextWake

ContextSpec == ContextInit /\ [][ContextNext]_vars

----------------------------------------------------------------------------
(* C31 *)

\* Who holds the context c.
HoldersOf(c) == {h \in {"driver", "attempt", "caller"} : c[h] # None}

\* The value of the context before event i of the trace: what .context
\* supplied or what the latest attempt handed back.
ContextBefore(i) ==
    LET k == CHOOSE j \in 1..(i - 1) :
                 /\ trace[j].ev \in {"context", "back"}
                 /\ \A m \in (j + 1)..(i - 1) : trace[m].ev \notin {"context", "back"}
    IN  trace[k].val

\* Every attempt is given the context the driver held.
GivenToEveryAttempt ==
    \A i \in 1..Len(trace) :
        trace[i].ev = "call" => trace[i].val = ContextBefore(i)

\* What the parties hold at each moment of the run.
HeldByOne ==
    /\ Cardinality(HoldersOf(ctx)) = 1
    /\ ctx.attempt # None <=> (state = "Polling" /\ ~Finished(ret))
    /\ ctx.caller # None <=> Finished(ret)
    /\ ctx.attempt # None => ctx.attempt = ContextBefore(Len(trace) + 1)
    /\ ctx.driver # None => ctx.driver = ContextBefore(Len(trace) + 1)

\* The caller gets the context of the last attempt with Ok and with Err.
ReturnedWithResult ==
    Finished(ret) =>
        /\ ret.tag \in {"Ok", "Err"}
        /\ ctx.caller = ContextBefore(Len(trace) + 1)
        /\ \E i \in 1..Len(trace) :
              /\ trace[i] = EvBack(Calls, ctx.caller)
              /\ \A m \in (i + 1)..Len(trace) : trace[m].ev \notin {"call", "back"}

\* C31: the context supplied with .context(value) is given to every
\* attempt, each attempt gets what the one before it handed back, the caller
\* gets what the last attempt handed back together with the Ok or the Err,
\* and at every moment exactly one of driver, attempt and caller holds it.
C31_ContextThreaded ==
    /\ GivenToEveryAttempt
    /\ HeldByOne
    /\ ReturnedWithResult

\* A run of three attempts that each changed the context, ended by an error.
C31_Witness ==
    /\ ret.tag = "Err"
    /\ Calls = 3
    /\ trace[1] = EvContext(1)
    /\ \E i, j \in 1..Len(trace) :
          /\ trace[i] = EvBack(1, 2)
          /\ trace[j] = EvGive(3, 1)
    /\ ctx.caller = 2

\* A run whose second attempt succeeded and handed back a changed context.
C31_WitnessOk ==
    /\ ret.tag = "Ok"
    /\ Calls = 2
    /\ trace[1] = EvContext(1)
    /\ ctx.caller = 2

----------------------------------------------------------------------------
(* C32 *)

\* A call of poll returns Pending exactly when it ends on a pending attempt
\* or a pending suspension, which stays in flight; every other call ends
\* the run.
PendingOnlyInFlight ==
    /\ ret' = Pending <=> steps'.last \in PendingArms
    /\ ret' # Pending => Finished(ret')
    /\ ret' = Pending =>
          /\ state' \in {"Polling", "Sleeping"}
          /\ trace' # <<>>
          /\ trace'[Len(trace')].ev = IF state' = "Polling" THEN "call" ELSE "sleep"

\* A call of poll that meets no pending future goes through every attempt
\* and every suspension that is left and returns the result of the run.
ReadyThroughout ==
    steps'.first \notin PendingArms =>
        \/ ret' = Pending
        \/ /\ Finished(ret')
           /\ \/ ret'.tag = "Ok"
              \/ ret'.tag = "Err" /\ trace'[Len(trace')].ev \in {"when", "nextNone"}
              \/ ret'.tag = "Panic" /\ trace'[Len(trace')].ev = "nextPanic"

\* C32: poll returns Pending only when the attempt or the suspension in
\* flight is pending; the predicate, the advance of the sequence, the notify
\* hook and the start of an attempt never suspend, so a call of poll on
\* which every future is ready runs to the result of the run.
C32_PendingOnlyOnFutures == [][PendingOnlyInFlight /\ ReadyThroughout]_vars

\* The first call of poll went through MaxTimes + 1 attempts and MaxTimes
\* suspensions and returned the last error.
C32_Witness ==
    /\ steps.first = "Idle"
    /\ ret.tag = "Err"
    /\ Calls = MaxTimes + 1
    /\ CountEv(trace, "wake") = MaxTimes
    /\ trace[Len(trace)].ev = "nextNone"

----------------------------------------------------------------------------
(* Retry::when, Retry::notify, Retry::sleep *)

\* Most configuration calls made on one driver.
MaxConfigures == 2

\* A configuration call, as an event of the history.
EvConfigure(ev) == Event(ev, 0, 0, None, FALSE)

\* number of configuration calls made so far
Configured ==
    Cardinality({i \in 1..Len(trace) : trace[i].ev \in {"setWhen", "setNotify", "setSleep"}})

\* The driver is taken by value, so it can be reconfigured as long as it is
\* owned: before the first poll and, when it is Unpin, between two polls.
Configurable == ~Finished(ret) /\ Configured < MaxConfigures

\* Mutant of when: the sequence is built anew.
when_Rebuilds(p) ==
    /\ Configurable
    /\ retryable_fn' = p
    /\ backoff' = BuildOf(builder)
    /\ trace' = Append(trace, EvConfigure("setWhen"))
    /\ UNCHANGED <<state, fut, sl, ret, steps, notify_fn, sleep_fn,
                   builder, other, ctx, debug_assertions>>

\* Retry::when(retryable)
when(p) ==
    /\ Configurable
    /\ retryable_fn' = p
    /\ trace' = Append(trace, EvConfigure("setWhen"))
    /\ UNCHANGED <<state, fut, sl, backoff, ret, steps, notify_fn, sleep_fn,
                   builder, other, ctx, debug_assertions>>

\* Retry::notify(notify)
notify(h) ==
    /\ Configurable
    /\ notify_fn' = h
    /\ trace' = Append(trace, EvConfigure("setNotify"))
    /\ UNCHANGED <<state, fut, sl, backoff, retryable_fn, ret, steps, sleep_fn,
                   builder, other, ctx, debug_assertions>>

\* Retry::sleep(sleep_fn): the new driver starts in State::Idle.
sleep(s) ==
    /\ Configurable
    /\ sleep_fn' = s
    /\ state' = "Idle"
    /\ fut' = 0
    /\ sl' = None
    /\ trace' = Append(trace, EvConfigure("setSleep"))
    /\ UNCHANGED <<backoff, retryable_fn, ret, steps, notify_fn,
                   builder, other, ctx, debug_assertions>>

\* Retry::new: every error is retryable, the hook is empty, the sleeper is
\* the default one.
ReconfiguredInit ==
    /\ ConfiguredInit
    /\ builder \in {p \in Builders : /\ ~p.jitter /\ p.total_delay = None
                                     /\ p.max_delay = None /\ p.max_times = 1}
    /\ retryable_fn = Errors
    /\ notify_fn = "default"
    /\ sleep_fn = "sleeper"

SetWhen   == \E p \in SUBSET Errors : when(p)
SetNotify == \E h \in {"default", "hook"} : notify(h)
SetSleep  == \E s \in {"sleeper", "unit"} : sleep(s)

ReconfiguredNext == Poll \/ SetWhen \/ SetNotify \/ SetSleep

ReconfiguredSpec == ReconfiguredInit /\ [][ReconfiguredNext]_vars

----------------------------------------------------------------------------
(* C33 *)

\* when(p) installs p whatever was there and touches nothing else.
WhenOnlyPredicate ==
    \A p \in SUBSET Errors :
        when(p) => /\ retryable_fn' = p
                   /\ UNCHANGED <<backoff, notify_fn, sleep_fn, state, fut, sl>>

\* notify(h) installs h whatever was there and touches nothing else.
NotifyOnlyHook ==
    \A h \in {"default", "hook"} :
        notify(h) => /\ notify_fn' = h
                     /\ UNCHANGED <<backoff, retryable_fn, sleep_fn, state, fut, sl>>

\* sleep(s) installs s whatever was there and leaves the sequence, the
\* predicate and the hook alone.
SleepOnlySleeper ==
    \A s \in {"sleeper", "unit"} :
        sleep(s) => /\ sleep_fn' = s
                    /\ UNCHANGED <<backoff, retryable_fn, notify_fn>>

\* A step that changes one of the three components is the configuration
\* call for that component, and changes neither of the other two nor the
\* sequence.
OneComponentAtATime ==
    /\ retryable_fn' # retryable_fn =>
          /\ trace' = Append(trace, EvConfigure("setWhen"))
          /\ UNCHANGED <<backoff, notify_fn, sleep_fn>>
    /\ notify_fn' # notify_fn =>
          /\ trace' = Append(trace, EvConfigure("setNotify"))
          /\ UNCHANGED <<backoff, retryable_fn, sleep_fn>>
    /\ sleep_fn' # sleep_fn =>
          /\ trace' = Append(trace, EvConfigure("setSleep"))
          /\ UNCHANGED <<backoff, retryable_fn, notify_fn>>
    /\ (trace' # trace /\ trace'[Len(trace')].ev \in {"setWhen", "setNotify", "setSleep"}) =>
          UNCHANGED <<backoff, builder>>

----------------------------------------------------------------------------
(* C34 *)

\* Retry::new and BlockingRetry::new: the predicate of a driver on which
\* when was never called, `|_: &E| true`.
DefaultRetryable == {e \in Errors : TRUE}

\* BlockingRetry::new over the policy of this run, when never called.
BlockingNewDefault ==
    [backoff |-> Build(backoff), ret |-> NotPolled, trace |-> <<>>]

RECURSIVE callDefault(_, _, _)
\* BlockingRetry::call of a driver without predicate and hook: there is
\* no predicate to ask, every error goes to the sequence.
callDefault(c, ops, nexts) ==
    IF ops = <<>> THEN [c EXCEPT !.ret = Starved]
    ELSE
      LET n  == CountEv(c.trace, "call") + 1
          c1 == [c EXCEPT !.trace = Append(@, EvCall(n))]
          r  == Head(ops)
      IN  IF r.ev = "ok"
          THEN [c1 EXCEPT !.ret = Ok(r.val), !.trace = Append(@, EvOk(n, r.val))]
          ELSE IF nexts = <<>> \/ SameAnswer(c.backoff, Head(nexts)) = {}
          THEN [c1 EXCEPT !.ret = Starved]
          ELSE LET o == CHOOSE o \in SameAnswer(c.backoff, Head(nexts)) : TRUE
               IN  CASE o.out = "None" ->
                          [c1 EXCEPT !.backoff = o.b, !.ret = Err(r.val),
                                     !.trace = @ \o <<EvErr(n, r.val),
                                                      EvNext(n, "nextNone", None)>>]
                     [] o.out = "Panic" ->
                          [c1 EXCEPT !.backoff = o.b, !.ret = Panicked,
                                     !.trace = @ \o <<EvErr(n, r.val),
                                                      EvNext(n, "nextPanic", None)>>]
                     [] OTHER ->
                          callDefault([c1 EXCEPT !.backoff = o.b,
                                                 !.trace = @ \o <<EvErr(n, r.val),
                                                                  EvNext(n, "nextSome", o.dur),
                                                                  EvSleep(n, o.dur),
                                                                  EvWake(n, o.dur)>>],
                                      Tail(ops), Tail(nexts))

\* The attempts, advances and suspensions of a history: everything but the
\* calls of the predicate and of the hook.
IsNotPredicateOrHook(e) == e.ev \notin {"when", "notify"}
AttemptsAndSleeps(tr) == SelectSeq(tr, IsNotPredicateOrHook)

\* The driver without predicate run on the inputs of this run.
DefaultRun == callDefault(BlockingNewDefault, OpsOf(trace), NextsOf(trace))

\* In a run under the always-true predicate every failure was accepted
\* and went to the sequence.
EveryErrorRetried ==
    \A i \in 1..Len(trace) :
        /\ trace[i].ev = "when" => trace[i].acc
        /\ (trace[i].ev = "err" /\ i + 2 <= Len(trace)) =>
              /\ trace[i + 1] = EvWhen(trace[i].att, trace[i].val, TRUE)
              /\ trace[i + 2].ev \in NextKinds

\* C34: a driver on which when was never called treats every error as
\* retryable: on the same results of the operation and the same answers of
\* the sequence it makes the same attempts and suspensions and returns the
\* same result as a driver whose predicate always returns true.
C34_DefaultRetriesAll ==
    (Finished(ret) /\ retryable_fn = Errors) =>
        /\ retryable_fn = DefaultRetryable
        /\ EveryErrorRetried
        /\ DefaultRun.ret = ret
        /\ DefaultRun.trace = AttemptsAndSleeps(trace)
        /\ DefaultRun.backoff = backoff

\* A run under the always-true predicate that failed with both errors,
\* slept twice and ended exhausted, as the driver without predicate does.
C34_Witness ==
    /\ retryable_fn = Errors
    /\ ret.tag = "Err"
    /\ Calls = 3
    /\ Slept = 2
    /\ \E i, j \in 1..Len(trace) : trace[i] = EvErr(1, 1) /\ trace[j] = EvErr(2, 2)
    /\ DefaultRun.ret = ret
    /\ CountEv(DefaultRun.trace, "sleep") = 2

----------------------------------------------------------------------------
(* ExponentialBuilder::with_factor *)

\* The factors a caller passes: -1 and 0 stand for the factors below 1.0.
Factors == (0 - 1)..MaxFactor

\* with_factor of backon/src/backoff/exponential.rs: the factor is stored.
with_factor(p, f) == [p EXCEPT !.factor = f]

\* with_factor of src/exponential.rs: debug_assert!(factor >= 1.0) first.
\* The builder it returns, none when the assertion fails.
with_factor_asserted(p, f, debug) ==
    IF debug /\ f < 1 THEN {} ELSE {[p EXCEPT !.factor = f]}

EvFactor(ev, f) == Event(ev, 0, f, None, FALSE)

\* A policy without budget, its factor still the default one; the build is
\* a debug or a release build.
FactorInit ==
    /\ state = "Idle"
    /\ fut = 0
    /\ sl = None
    /\ builder \in {p \in ExponentialBuilders : /\ p.total_delay = None
                                                /\ p.factor = DefaultFactor
                                                /\ p.min_delay \in {0, 1, 3}}
    /\ backoff = BuildOf(builder)
    /\ other = <<>>
    /\ notify_fn = "default"
    /\ sleep_fn = "sleeper"
    /\ retryable_fn = Errors
    /\ ret = NotPolled
    /\ steps = NoSteps
    /\ trace = <<>>
    /\ ctx = NoContext
    /\ debug_assertions \in BOOLEAN

\* builder.with_factor(f).build(), the with_factor that stores the factor
WithFactor ==
    /\ trace = <<>>
    /\ \E f \in Factors :
          /\ builder' = with_factor(builder, f)
          /\ backoff' = BuildOf(with_factor(builder, f))
          /\ trace' = <<EvFactor("with_factor", f)>>
    /\ UNCHANGED <<state, fut, sl, retryable_fn, ret, steps, notify_fn,
                   sleep_fn, other, ctx, debug_assertions>>

\* builder.with_factor(f).build(), the with_factor that asserts first
WithFactorAsserted ==
    /\ trace = <<>>
    /\ \E f \in Factors :
          IF with_factor_asserted(builder, f, debug_assertions) = {}
          THEN /\ trace' = <<EvFactor("factorPanic", f)>>
               /\ ret' = Panicked
               /\ UNCHANGED <<builder, backoff>>
          ELSE \E q \in with_factor_asserted(builder, f, debug_assertions) :
                  /\ builder' = q
                  /\ backoff' = BuildOf(q)
                  /\ trace' = <<EvFactor("with_factor_asserted", f)>>
                  /\ ret' = ret
    /\ UNCHANGED <<state, fut, sl, retryable_fn, steps, notify_fn,
                   sleep_fn, other, ctx, debug_assertions>>

\* next() on the sequence that was built, if one was.
FactorAdvance == ret # Panicked /\ ExponentialAdvance

FactorNext == WithFactor \/ WithFactorAsserted \/ FactorAdvance

FactorSpec == FactorInit /\ [][FactorNext]_vars

----------------------------------------------------------------------------
(* C35 *)

\* The run began with a with_factor call whose factor is below 1.0.
FactorBelowOne ==
    /\ trace # <<>>
    /\ trace[1].ev \in {"with_factor", "with_factor_asserted", "factorPanic"}
    /\ trace[1].val < 1

\* In a debug build a factor below 1.0 stops at the assertion.
FlaggedInDebug == (FactorBelowOne /\ debug_assertions) => trace[1].ev = "factorPanic"

\* The with_factor that asserts does stop a factor below 1.0 in a debug
\* build, and only there.
AssertedFlagsInDebug ==
    (FactorBelowOne /\ trace[1].ev # "with_factor") =>
        (trace[1].ev = "factorPanic" <=> debug_assertions)

\* Whatever the factor, the sequence that was built answers every advance
\* with a delay or with exhaustion.
FactorNeverAnError ==
    \A i \in 2..Len(trace) : trace[i].ev \in {"nextSome", "nextNone"}

\* C35: a growth factor below 1.0 is flagged by with_factor with a failed
\* debug assertion, and neither build nor advance reports it as an error.
C35_FactorBelowOneFlagged == FlaggedInDebug /\ FactorNeverAnError

\* What a factor below 1.0 does once stored: the delays shrink to zero
\* (factor 0) or jump to the largest duration (negative factor).
FactorBelowOneUnflagged ==
    /\ debug_assertions
    /\ Len(trace) = 3
    /\ trace[1] = EvFactor("with_factor", 0)
    /\ trace[2].dur = 3
    /\ trace[3].dur = 0

----------------------------------------------------------------------------
(* C36 *)

\* C36: in a Fibonacci sequence without jitter, once an advance has yielded
\* a delay d that is at least max_delay (the largest duration when there
\* is no max_delay), every later advance yields exactly d as long as
\* max_times allows a delay, and reports exhaustion afterwards.
C36_FibonacciPlateau ==
    PlainFibonacci =>
        \A i \in 1..Advanced, j \in 1..Advanced :
            (i < j /\ trace[i].ev = "nextSome" /\ trace[i].dur >= CapOf(backoff)) =>
                trace[j] = IF j <= MaxTimesOf(backoff)
                           THEN EvNext(j, "nextSome", trace[i].dur)
                           ELSE EvNext(j, "nextNone", None)

\* min_delay 3 and max_delay 3: the sequence stays at 3 from its first
\* delay on and is exhausted after max_times = 3 delays.
C36_Witness ==
    /\ PlainFibonacci
    /\ backoff.max_delay = 3 /\ backoff.max_times = 3
    /\ Advanced = 4
    /\ trace[1].dur = 3 /\ trace[2].dur = 3 /\ trace[3].dur = 3
    /\ trace[4].ev = "nextNone"

\* min_delay 2 and max_delay 3: 2, 2, 4, 4, the delay passed max_delay on
\* its last growth and stays there.
C36_WitnessPast ==
    /\ PlainFibonacci
    /\ backoff.max_delay = 3
    /\ Advanced = 4
    /\ trace[2].dur = 2 /\ trace[3].dur = 4 /\ trace[4].dur = 4

\* No max_delay: 4, 4, then the largest duration again and again.
C36_WitnessSaturated ==
    /\ PlainFibonacci
    /\ backoff.max_delay = None
    /\ Advanced = 4
    /\ trace[2].dur = 4 /\ trace[3].dur = DurationMax /\ trace[4].dur = DurationMax

----------------------------------------------------------------------------
(* C37 *)

\* C37: once an advance of a Constant, Exponential or Fibonacci sequence
\* has reported exhaustion, every later advance reports exhaustion as well,
\* jitter and total-delay budget included.
C37_ExhaustionPermanent ==
    \A i \in 1..Advanced, j \in 1..Advanced :
        (i < j /\ trace[i].ev = "nextNone") => trace[j].ev = "nextNone"

\* The sequence draws a jitter and checks the sum against a budget.
JitteredBudget == HasBudget(backoff) /\ backoff.jitter

\* Every sequence but the exponential one with jitter and budget stays
\* exhausted.
PermanentUnlessJitteredBudget == JitteredBudget \/ C37_ExhaustionPermanent

\* An exponential sequence with jitter and budget 3: the first advance
\* draws a delay over the budget and reports exhaustion, the second draws
\* one within it and yields.
YieldsAfterExhaustion ==
    /\ JitteredBudget
    /\ backoff.total_delay = 3
    /\ Advanced = 2
    /\ trace[1].ev = "nextNone"
    /\ trace[2].ev = "nextSome"

----------------------------------------------------------------------------
(* C38 *)

\* An exponential sequence with jitter whose max_delay is set and not
\* below its min_delay.
JitteredCapped ==
    /\ IsExponential(backoff) /\ backoff.jitter
    /\ backoff.max_delay # None
    /\ backoff.min_delay <= backoff.max_delay

----------------------------------------------------------------------------
(* C39 *)

RECURSIVE SumSlept(_)
\* The sum of the durations passed to sleep_fn.sleep in the history tr.
SumSlept(tr) ==
    IF tr = <<>> THEN 0
    ELSE SumSlept(SubSeq(tr, 1, Len(tr) - 1))
         + (IF tr[Len(tr)].ev = "sleep" THEN tr[Len(tr)].dur ELSE 0)

\* C39: in a run of the driver over an exponential policy with total-delay
\* budget T, the durations passed to the sleeper sum up to at most T,
\* whatever the attempts return and with jitter on or off; the sum is the
\* one the sequence keeps.
C39_RunWithinBudget ==
    backoff.total_delay # None =>
        /\ SumSlept(trace) <= backoff.total_delay
        /\ SumSlept(trace) = backoff.cumulative_delay

\* A run with jitter under budget 3: it slept 1 and 2 and ended on the
\* third failure, the budget spent and attempts left.
C39_Witness ==
    /\ backoff.jitter /\ backoff.total_delay = 3
    /\ Slept = 2
    /\ SumSlept(trace) = 3
    /\ ret.tag = "Err"
    /\ trace[Len(trace)].ev = "nextNone"
    /\ backoff.max_times = None

----------------------------------------------------------------------------
(* backon-tower: RetryLayer and the retrying service.  builder is the      *)
(* policy of the layer; other holds the requests in flight, each with the  *)
(* sequence of its own retry loop.                                         *)

\* Most requests in flight at once.
MaxRequests == 2

\* B: Clone, derived: the copy has the fields of the original.
clone(p) == [f \in DOMAIN p |-> p[f]]

\* RetryLayer::layer: the service gets a clone of the layer's policy.
layer(p) == [backoff |-> clone(p)]

\* Retry::call of the service srv: the retry loop of the request, over a
\* sequence built from a clone of the service's policy; ret is what the
\* request's future has returned.
TowerRequest(srv) == [seq |-> Fresh(clone(clone(srv.backoff))), ret |-> Pending]

\* The requests still being served.
InFlight == {i \in 1..Len(other) : other[i].ret = Pending}

\* The retrying service is called with one more request.
TowerCall ==
    /\ Len(other) < MaxRequests
    /\ other' = Append(other, TowerRequest(layer(builder)))
    /\ UNCHANGED <<state, fut, sl, backoff, retryable_fn, ret, steps, trace,
                   notify_fn, sleep_fn, builder, ctx, debug_assertions>>

\* The request i after its attempt failed with e and its sequence
\* answered o.
Retried(r, e, o) ==
    [seq |-> Stepped(r.seq, o),
     ret |-> CASE o.out = "None"  -> Err(e)
               [] o.out = "Panic" -> Panicked
               [] OTHER -> Pending]

\* Mutant of TowerFail: the requests advance one sequence between them.
TowerFail_Shared(i) ==
    /\ i \in InFlight
    /\ \E e \in Errors, o \in NextOf(other[i].seq.b) :
          other' = [j \in 1..Len(other) |->
                       IF j = i THEN Retried(other[i], e, o)
                       ELSE [other[j] EXCEPT !.seq.b = o.b]]
    /\ UNCHANGED <<state, fut, sl, backoff, retryable_fn, ret, steps, trace,
                   notify_fn, sleep_fn, builder, ctx, debug_assertions>>

\* The inner service failed request i: its retry loop advances its
\* sequence and sleeps, or ends with the error.
TowerFail(i) ==
    /\ i \in InFlight
    /\ \E e \in Errors, o \in NextOf(other[i].seq.b) :
          other' = [other EXCEPT ![i] = Retried(other[i], e, o)]
    /\ UNCHANGED <<state, fut, sl, backoff, retryable_fn, ret, steps, trace,
                   notify_fn, sleep_fn, builder, ctx, debug_assertions>>

\* The inner service answered request i.
TowerOk(i) ==
    /\ i \in InFlight
    /\ \E v \in Values : other' = [other EXCEPT ![i].ret = Ok(v)]
    /\ UNCHANGED <<state, fut, sl, backoff, retryable_fn, ret, steps, trace,
                   notify_fn, sleep_fn, builder, ctx, debug_assertions>>

\* The layer's policy: every jitter-free one without max_delay, and the
\* jittered ones of a single delay.
TowerInit ==
    /\ Init
    /\ retryable_fn = Errors
    /\ builder.max_delay = None
    /\ ~builder.jitter \/ builder.max_times = 1

TowerRetry == \E i \in 1..MaxRequests : TowerFail(i)
TowerRespond == \E i \in 1..MaxRequests : TowerOk(i)

TowerNext == TowerCall \/ TowerRetry \/ TowerRespond

TowerSpec == TowerInit /\ [][TowerNext]_vars

----------------------------------------------------------------------------
(* C40 *)

RECURSIVE Alone(_, _)
\* A jitter-free sequence s and its history after k advances on its own.
Alone(s, k) ==
    IF k = 0 THEN s
    ELSE Alone(Stepped(s, CHOOSE o \in NextOf(s.b) : TRUE), k - 1)

\* Every request has the sequence a request served alone would have after
\* as many failures: a new one starts from the initial state of the
\* layer's policy, and its delays are those of the policy, as many as
\* max_times allows.
OwnSequence ==
    \A i \in 1..Len(other) :
        LET r == other[i]
        IN  /\ r.seq.out = <<>> => InitialOf(builder, r.seq.b)
            /\ ~builder.jitter =>
                  r.seq = Alone(Fresh(builder), Len(r.seq.out))
            /\ (r.ret.tag = "Err" /\ builder.total_delay = None) =>
                  CountEv(r.seq.out, "nextSome") = MaxTimesOf(r.seq.b)

\* A step of one request changes neither the layer's policy nor any other
\* request.
RequestsApart ==
    /\ builder' = builder
    /\ Len(other') >= Len(other)
    /\ \A i, j \in 1..Len(other) :
          (i # j /\ other'[i] # other[i]) => other'[j] = other[j]
    /\ Len(other') > Len(other) =>
          \A j \in 1..Len(other) : other'[j] = other[j]

\* C40: every call of the retrying service starts a retry loop of its own
\* over a sequence freshly built from a clone of the layer's policy; the
\* retries of one request, in any interleaving with other requests, take
\* no delay away from another request.
C40_RequestsIndependent == []OwnSequence /\ [][RequestsApart]_vars

\* Two requests under a policy of three delays: the first used all three
\* and failed, the second has used one and has the second delay of the
\* policy next.
C40_Witness ==
    /\ Len(other) = 2
    /\ ~builder.jitter /\ builder.max_times = 3 /\ builder.total_delay = None
    /\ other[1].ret.tag = "Err"
    /\ CountEv(other[1].seq.out, "nextSome") = 3
    /\ other[2].ret = Pending
    /\ Len(other[2].seq.out) = 1
    /\ other[2].seq.b.attempts = 1

====
